---- MODULE Spec2Model ----
(***************************************************************************)
(* Model of md-to-docx.py: the inline tokenizer format_paragraph, the      *)
(* per-line block classifier format_document.process_line with its list    *)
(* numbering (list_number), headings and the table assembler; of           *)
(* src/convert.py, the conversion of documents to their output formats;    *)
(* and of src/docx_builder.py, the builder that receives the events of a   *)
(* document model.                                                         *)
(*                                                                         *)
(* A Python str is modelled as a sequence of one-character strings.        *)
(* Python's None is the string "None"; a tri-state bool of python-docx     *)
(* (True / False / None = inherit) is one of "True", "False", "None".      *)
(***************************************************************************)
EXTENDS Integers, Sequences, FiniteSets, TLC

VARIABLES
    \* format_paragraph(paragraph, line): its locals and the paragraph's runs
    arg_line,        \* the argument `line` as passed by the caller
    line,            \* the local `line`: what is left to scan
    buffer,          \* the local `buffer`
    processed_line,  \* the local `processed_line`
    runs,            \* the runs added to `paragraph` so far
    pc,              \* "idle" | "scan" (in the while loop) | "done" (returned)
    \* format_document: the object's fields and the loop of __init__
    in_list,         \* self.in_list
    in_maatregel,    \* self.in_maatregel
    document,        \* the body of self.document: paragraphs and tables in order
    previous,        \* the local `previous` of __init__: index in document, 0 = None
    numbering,       \* the w:num elements of the numbering part, in order of creation
    abstract_nums,   \* the w:abstractNum definitions of the numbering part
    error,           \* "None", or the exception that ended the program
    consumed,        \* the lines of non_empty_lines the loop of __init__ has handled
    \* convert.py: main and convert
    settings_filenames,  \* the settings files main has still to convert
    settings,        \* the settings of the document convert is working on, or "None"
    conv_pc,         \* where main / convert stands
    calls,           \* the calls made so far that compile or replay a document model
    outputs,         \* the output files written so far: <<document, format>>
    \* docx_builder.py: DocxBuilder instances and the events replayed to them
    files,           \* the file system: what each file holds, "absent" if none
    builders,        \* the DocxBuilder instances, by the filename each was made for
    events,          \* the events of the document model being replayed
    received         \* how many of the events each builder has received

vars == <<arg_line, line, buffer, processed_line, runs, pc,
          in_list, in_maatregel, document, previous, numbering, abstract_nums,
          error, consumed,
          settings_filenames, settings, conv_pc, calls, outputs,
          files, builders, events, received>>

fp_vars == <<arg_line, line, buffer, processed_line, runs, pc>>
doc_vars == <<in_list, in_maatregel, document, previous, numbering, abstract_nums,
              error, consumed>>
conv_vars == <<settings_filenames, settings, conv_pc, calls, outputs>>
bld_vars == <<files, builders, events, received>>
ext_vars == <<conv_vars, bld_vars>>

\* convert.py is not running
ConvertIdle ==
    /\ settings_filenames = <<>>
    /\ settings = "None"
    /\ conv_pc = "idle"
    /\ calls = <<>>
    /\ outputs = {}

\* no DocxBuilder has been made
BuilderIdle ==
    /\ files = <<>>
    /\ builders = <<>>
    /\ events = <<>>
    /\ received = <<>>

ExtIdle == ConvertIdle /\ BuilderIdle

----------------------------------------------------------------------------
(* Bounds of the model *)

MaxLen == 5      \* longest generated line handed to format_paragraph
MaxLines == 3    \* number of input lines a document run consumes

----------------------------------------------------------------------------
(* Python str operations on sequences of characters *)

None == "None"

startswith(s, p) == Len(s) >= Len(p) /\ SubSeq(s, 1, Len(p)) = p

\* p in s
Contains(s, p) == \E i \in 1..(Len(s) - Len(p) + 1) : SubSeq(s, i, i + Len(p) - 1) = p

\* s[n:]
Drop(s, n) == SubSeq(s, n + 1, Len(s))

----------------------------------------------------------------------------
(* Constants of md-to-docx.py *)

STYLE_NORMAL == "Normal"
STYLE_LIST_BULLET == "Lijst opsom.teken1"
STYLE_LIST_NUMBER == "Lijstnummering1"
STYLE_TABLE == "Tabelraster1"
STYLE_MAATREGEL == "Maatregel"
STYLE_INSTRUCTION == "Instructie"
STYLE_APPENDIX_HEADING1 == "Kop 1 Bijlage"
STYLE_APPENDIX_HEADING2 == "Kop 2 Bijlage"
STYLE_APPENDIX_HEADING3 == "Kop 3 Bijlage"

MD_BOLD == <<"*", "*">>
MD_BOLD_ALTERNATIVE == <<"_", "_">>
MD_ITALIC == <<"_">>
MD_ITALIC_ALTERNATIVE == <<"*">>
MD_STRIKETHROUGH == <<"~", "~">>
MD_INSTRUCTION_START == <<"{">>
MD_INSTRUCTION_END == <<"}">>

----------------------------------------------------------------------------
(* format_paragraph *)

md_format_markers ==
    << <<MD_BOLD, MD_BOLD>>, <<MD_BOLD_ALTERNATIVE, MD_BOLD_ALTERNATIVE>>,
       <<MD_ITALIC, MD_ITALIC>>, <<MD_ITALIC_ALTERNATIVE, MD_ITALIC_ALTERNATIVE>>,
       <<MD_STRIKETHROUGH, MD_STRIKETHROUGH>>,
       <<MD_INSTRUCTION_START, MD_INSTRUCTION_END>> >>

md_format_markers_to_keep == {MD_INSTRUCTION_START, MD_INSTRUCTION_END}

md_format_start(k) == md_format_markers[k][1]
md_format_end(k) == md_format_markers[k][2]

PyBool(b) == IF b THEN "True" ELSE "False"

\* flush_buffer's default argument markup=None (no marker is the empty string)
NoMarkup == <<>>

\* flush_buffer(markup): the run it adds to the paragraph
flush_buffer(buf, markup) ==
    [text   |-> buf,
     style  |-> IF markup = MD_INSTRUCTION_END THEN STYLE_INSTRUCTION ELSE None,
     bold   |-> PyBool(markup \in {MD_BOLD, MD_BOLD_ALTERNATIVE}),
     italic |-> PyBool(markup \in {MD_ITALIC, MD_ITALIC_ALTERNATIVE}),
     strike |-> PyBool(markup = MD_STRIKETHROUGH)]

\* paragraph.add_run(buffer): a run with no property set
add_run(buf) ==
    [text |-> buf, style |-> None, bold |-> None, italic |-> None, strike |-> None]

\* StartCond without its look-ahead for the end marker
StartCondNoLookahead(l, k) == startswith(l, md_format_start(k))

\* the `if` of the for loop, for marker pair k
StartCond(l, k) ==
    /\ startswith(l, md_format_start(k))
    /\ Contains(Drop(l, Len(md_format_start(k))), md_format_end(k))

\* the `elif` of the for loop, for marker pair k
EndCond(l, processed, k) ==
    /\ ~StartCond(l, k)
    /\ startswith(l, md_format_end(k))
    /\ Contains(processed, md_format_start(k))

\* the pair at which the for loop breaks; 0 when it runs to its else clause
BreakAt(l, processed) ==
    LET hits == {k \in 1..Len(md_format_markers) :
                    StartCond(l, k) \/ EndCond(l, processed, k)}
    IN  IF hits = {} THEN 0 ELSE CHOOSE k \in hits : \A j \in hits : k <= j

\* "start" | "end" | "literal": the branch one iteration of the while loop takes
Branch(l, processed) ==
    LET k == BreakAt(l, processed)
    IN  IF k = 0 THEN "literal"
        ELSE IF StartCond(l, k) THEN "start" ELSE "end"

\* FpStep without `line = line[len(processed_chars):]`
FpStep_no_advance(s) == [s EXCEPT !.processed_line = s.processed_line \o <<s.line[1]>>]

\* one iteration of the while loop on the locals s = [line, buffer, processed_line, runs]
FpStep(s) ==
    LET k == BreakAt(s.line, s.processed_line)
        br == Branch(s.line, s.processed_line)
        processed_chars ==
            IF br = "start" THEN md_format_start(k)
            ELSE IF br = "end" THEN md_format_end(k)
            ELSE <<s.line[1]>>
        kept == IF processed_chars \in md_format_markers_to_keep
                THEN processed_chars ELSE <<>>
    IN  [line |-> Drop(s.line, Len(processed_chars)),
         processed_line |-> s.processed_line \o processed_chars,
         buffer |-> IF br = "start" THEN kept
                    ELSE IF br = "end" THEN <<>>
                    ELSE s.buffer \o processed_chars,
         runs |-> IF br = "start" THEN Append(s.runs, flush_buffer(s.buffer, NoMarkup))
                  ELSE IF br = "end"
                       THEN Append(s.runs, flush_buffer(s.buffer \o kept, md_format_end(k)))
                  ELSE s.runs]

\* FpFinish without the flush of what is left in the buffer
FpFinish_no_flush(s) == s.runs

\* after the loop: `if buffer: paragraph.add_run(buffer)`
FpFinish(s) == IF s.buffer # <<>> THEN Append(s.runs, add_run(s.buffer)) ELSE s.runs

FpInit(l) == [line |-> l, buffer |-> <<>>, processed_line |-> <<>>, runs |-> <<>>]

\* the while loop and the final flush, from the locals s on (each iteration's
\* locals are bound as a value before the next iteration is taken)
RECURSIVE FpLoop(_)
FpLoop(s) ==
    IF s.line = <<>> THEN FpFinish(s)
    ELSE CHOOSE rs \in {FpLoop(n) : n \in {FpStep(s)}} : TRUE

\* format_paragraph(paragraph, line): the runs of the paragraph afterwards
format_paragraph(paragraph_runs, l) == paragraph_runs \o FpLoop(FpInit(l))

\* Paragraph.text: the texts of the runs, concatenated
RECURSIVE ParagraphText(_)
ParagraphText(rs) == IF rs = <<>> THEN <<>> ELSE Head(rs).text \o ParagraphText(Tail(rs))

----------------------------------------------------------------------------
(* More str operations: character classes, strip, replace, count, upper *)

Digits == {"0", "1", "2", "3", "4", "5", "6", "7", "8", "9"}
LowerCase == <<"a", "b", "c", "d", "e", "f", "g", "h", "i", "j", "k", "l", "m", "n", "o", "p", "q", "r", "s", "t", "u", "v", "w", "x", "y", "z">>
UpperCase == <<"A", "B", "C", "D", "E", "F", "G", "H", "I", "J", "K", "L", "M", "N", "O", "P", "Q", "R", "S", "T", "U", "V", "W", "X", "Y", "Z">>
Letters == {LowerCase[i] : i \in 1..Len(LowerCase)} \cup {UpperCase[i] : i \in 1..Len(UpperCase)}

\* c.upper() for one character
UpperChar(c) ==
    IF \E i \in 1..Len(LowerCase) : LowerCase[i] = c
    THEN UpperCase[CHOOSE i \in 1..Len(LowerCase) : LowerCase[i] = c]
    ELSE c

\* s.upper()
Upper(s) == [i \in 1..Len(s) |-> UpperChar(s[i])]

\* s.lstrip(chars), s.rstrip(chars), s.strip(chars)
RECURSIVE LStrip(_, _)
LStrip(s, chars) ==
    IF s # <<>> /\ s[1] \in chars THEN LStrip(Tail(s), chars) ELSE s

RECURSIVE RStrip(_, _)
RStrip(s, chars) ==
    IF s # <<>> /\ s[Len(s)] \in chars THEN RStrip(SubSeq(s, 1, Len(s) - 1), chars) ELSE s

StripChars(s, chars) == RStrip(LStrip(s, chars), chars)

\* s.strip()
strip(s) == StripChars(s, {" "})

\* s.count(c) for one character c
RECURSIVE Count(_, _)
Count(s, c) ==
    IF s = <<>> THEN 0 ELSE (IF s[1] = c THEN 1 ELSE 0) + Count(Tail(s), c)

\* s.replace(old, ""), for a non-empty old
RECURSIVE Remove(_, _)
Remove(s, old) ==
    IF s = <<>> THEN <<>>
    ELSE IF startswith(s, old) THEN Remove(Drop(s, Len(old)), old)
    ELSE <<s[1]>> \o Remove(Tail(s), old)

\* s.split(c) for one character c: the pieces between the occurrences of c
Split(s, c) ==
    LET seps == {i \in 1..Len(s) : s[i] = c}
        \* position of the k-th occurrence of c; 0 before the first, Len(s) + 1 after the last
        pos(k) == IF k = 0 THEN 0
                  ELSE IF k > Cardinality(seps) THEN Len(s) + 1
                  ELSE CHOOSE i \in seps : Cardinality({j \in seps : j < i}) = k - 1
    IN  [k \in 1..(Cardinality(seps) + 1) |-> SubSeq(s, pos(k - 1) + 1, pos(k) - 1)]

----------------------------------------------------------------------------
(* The document: paragraphs and tables, and the numbering part *)

ALIGN_LEFT == "LEFT"
ALIGN_CENTER == "CENTER"
ALIGN_RIGHT == "RIGHT"

\* A paragraph of the document body. numId = 0: the paragraph has no numPr.
\* lineno: which consumed line created the element (0: the front matter).
Paragraph(style, rs, lineno) ==
    [kind |-> "paragraph", style |-> style, runs |-> rs, numId |-> 0, ilvl |-> 0,
     rows |-> <<>>, lineno |-> lineno]

\* a cell of a table: its first paragraph's runs and alignment, and its width type
Cell(rs, alignment, tcW) == [runs |-> rs, alignment |-> alignment, tcW |-> tcW]

\* a cell as document.add_table and table.add_row make it
EmptyCell == Cell(<<>>, None, None)

Table(rows, lineno) ==
    [kind |-> "table", style |-> STYLE_TABLE, runs |-> <<>>, numId |-> 0, ilvl |-> 0,
     rows |-> rows, lineno |-> lineno]

\* document.add_heading("", level): the style it uses
HeadingStyle ==
    <<"Heading 1", "Heading 2", "Heading 3", "Heading 4", "Heading 5",
      "Heading 6", "Heading 7", "Heading 8", "Heading 9">>

\* bijlage_heading_style(level)
bijlage_heading_style(level) ==
    IF level = 1 THEN STYLE_APPENDIX_HEADING1
    ELSE IF level = 2 THEN STYLE_APPENDIX_HEADING2
    ELSE STYLE_APPENDIX_HEADING3

BIJLAGEN == <<"B", "I", "J", "L", "A", "G", "E", "N">>

\* HasBijlagen that compares the text as it is, without upper()
HasBijlagenCaseSensitive(doc) ==
    \E i \in 1..Len(doc) :
        doc[i].kind = "paragraph" /\ ParagraphText(doc[i].runs) = BIJLAGEN

\* "BIJLAGEN" in [p.text.upper() for p in self.document.paragraphs]
HasBijlagen(doc) ==
    \E i \in 1..Len(doc) :
        doc[i].kind = "paragraph" /\ Upper(ParagraphText(doc[i].runs)) = BIJLAGEN

\* par.style.style_id: the id the reference document gives the style
style_id(style) ==
    IF style = STYLE_LIST_BULLET THEN "Lijstopsomteken1" ELSE style

\* numbering.xpath(style_xpath(prefer_single)) and numbering.xpath(type_xpath(prefer_single)):
\* the ids of the abstract numbering definitions that match
style_xpath(style, level, prefer_single) ==
    {a.id : a \in {a \in abstract_nums :
        /\ prefer_single => Cardinality(a.lvls) = 1
        /\ \E l \in a.lvls : /\ l.ilvl = (IF prefer_single THEN 0 ELSE level)
                             /\ l.pStyle = style_id(style)}}

type_xpath(num, level, prefer_single) ==
    {a.id : a \in {a \in abstract_nums :
        /\ prefer_single => Cardinality(a.lvls) = 1
        /\ \E l \in a.lvls : /\ l.ilvl = (IF prefer_single THEN 0 ELSE level)
                             /\ l.numFmt = (IF num THEN "decimal" ELSE "bullet")}}

Min(S) == CHOOSE x \in S : \A y \in S : x <= y

\* get_abstract_id that tries the numbering type before the paragraph style
get_abstract_id_type_first(style, level, num) ==
    IF type_xpath(num, level, TRUE) # {} THEN Min(type_xpath(num, level, TRUE))
    ELSE IF type_xpath(num, level, FALSE) # {} THEN Min(type_xpath(num, level, FALSE))
    ELSE IF style_xpath(style, level, TRUE) # {} THEN Min(style_xpath(style, level, TRUE))
    ELSE IF style_xpath(style, level, FALSE) # {} THEN Min(style_xpath(style, level, FALSE))
    ELSE 0

\* get_abstract_id()
get_abstract_id(style, level, num) ==
    IF style_xpath(style, level, TRUE) # {} THEN Min(style_xpath(style, level, TRUE))
    ELSE IF style_xpath(style, level, FALSE) # {} THEN Min(style_xpath(style, level, FALSE))
    ELSE IF type_xpath(num, level, TRUE) # {} THEN Min(type_xpath(num, level, TRUE))
    ELSE IF type_xpath(num, level, FALSE) # {} THEN Min(type_xpath(num, level, FALSE))
    ELSE 0

\* numbering.add_num(anum): the numId it allocates, the first one not in use
next_numId(nums) ==
    CHOOSE n \in 1..(Len(nums) + 1) :
        /\ \A i \in 1..Len(nums) : nums[i].numId # n
        /\ \A m \in 1..(n - 1) : \E i \in 1..Len(nums) : nums[i].numId = m

\* list_number(doc, par, prev, level, num) on the paragraph par = doc[pi], just added.
\* prev = 0 is None. The result is [document, numbering, error].
list_number(doc, nums, pi, prev, level, num) ==
    IF prev # 0 /\ doc[prev].kind = "table"
    THEN \* prev._p: a Table has no attribute _p
         [document |-> doc, numbering |-> nums, error |-> "AttributeError"]
    ELSE IF prev = 0 \/ doc[prev].numId = 0
    THEN LET anum == get_abstract_id(doc[pi].style, level, num)
             numId == next_numId(nums)
         IN  [document |-> [doc EXCEPT ![pi].numId = numId, ![pi].ilvl = level],
              numbering |-> Append(nums, [numId |-> numId, abstractNumId |-> anum,
                                          ilvl |-> level, startOverride |-> 1]),
              error |-> None]
    ELSE [document |-> [doc EXCEPT ![pi].numId = doc[prev].numId, ![pi].ilvl = level],
          numbering |-> nums, error |-> None]

----------------------------------------------------------------------------
(* format_document *)

MEASURE_START == <<"@", "{">>
MEASURE_END == <<"}", "@">>

\* process_maatregel_line that takes "}@" as the end of a wrapper also when
\* no wrapper is open
process_maatregel_line_unguarded(l, in_m) ==
    LET entered == startswith(l, MEASURE_START)
        in_m1 == in_m \/ entered
        l1 == IF entered THEN Drop(l, Len(MEASURE_START)) ELSE l
        leaving == Contains(l1, MEASURE_END)
    IN  [line |-> IF leaving THEN Remove(l1, MEASURE_END) ELSE l1,
         leaving_maatregel |-> leaving,
         in_maatregel |-> in_m1]

\* process_maatregel_line(line): [line, leaving_maatregel, in_maatregel]
process_maatregel_line(l, in_m) ==
    LET entered == startswith(l, MEASURE_START)
        in_m1 == in_m \/ entered
        l1 == IF entered THEN Drop(l, Len(MEASURE_START)) ELSE l
        leaving == in_m1 /\ Contains(l1, MEASURE_END)
    IN  [line |-> IF leaving THEN Remove(l1, MEASURE_END) ELSE l1,
         leaving_maatregel |-> leaving,
         in_maatregel |-> in_m1]

BulletChars == {"*", "+", "-"}

\* re.match(r"^[*+-] .*", line)
IsBullet(l) == Len(l) >= 2 /\ l[1] \in BulletChars /\ l[2] = " "

\* length of the longest prefix of l made of [0-9a-zA-Z]
AlnumPrefixLen(l) ==
    CHOOSE n \in 0..Len(l) :
        /\ \A i \in 1..n : l[i] \in Digits \cup Letters
        /\ n = Len(l) \/ l[n + 1] \notin Digits \cup Letters

\* re.match(r"^[0-9a-zA-Z]+[.] .*", line)
IsNumbered(l) ==
    LET n == AlnumPrefixLen(l)
    IN  n >= 1 /\ Len(l) >= n + 2 /\ l[n + 1] = "." /\ l[n + 2] = " "

\* Classify that takes a list marker without the space after it
Classify_marker_only(l) ==
    IF startswith(l, <<"|">>) THEN "table"
    ELSE IF startswith(l, <<"#">>) THEN "heading"
    ELSE IF l # <<>> /\ l[1] \in BulletChars THEN "bullet"
    ELSE IF AlnumPrefixLen(l) >= 1 /\ Len(l) > AlnumPrefixLen(l)
            /\ l[AlnumPrefixLen(l) + 1] = "." THEN "numbered"
    ELSE "paragraph"

\* the branch process_line takes for the line left by process_maatregel_line
Classify(l) ==
    IF startswith(l, <<"|">>) THEN "table"
    ELSE IF startswith(l, <<"#">>) THEN "heading"
    ELSE IF IsBullet(l) THEN "bullet"
    ELSE IF IsNumbered(l) THEN "numbered"
    ELSE "paragraph"

\* create_paragraph(line, style): the document with the paragraph added
create_paragraph(doc, l, style, in_m, lineno) ==
    Append(doc, Paragraph(IF in_m THEN STYLE_MAATREGEL ELSE style,
                          format_paragraph(<<>>, l), lineno))

\* create_heading: heading_level = line.count('#')
heading_level_of(l) == Count(l, "#")

\* create_heading(line): [document, error]
create_heading(doc, l, lineno) ==
    LET heading_level == heading_level_of(l)
        text == strip(StripChars(l, {"#"}))
    IN  IF HasBijlagen(doc)
        THEN [document |-> Append(doc, Paragraph(bijlage_heading_style(heading_level),
                                                 format_paragraph(<<>>, text), lineno)),
              error |-> None]
        ELSE IF heading_level > Len(HeadingStyle)
        THEN \* add_heading: level must be in range 0-9
             [document |-> doc, error |-> "ValueError"]
        ELSE [document |-> Append(doc, Paragraph(HeadingStyle[heading_level],
                                                 format_paragraph(<<>>, text), lineno)),
              error |-> None]

\* create_bullet_list_item: level = {'+': 1, '-': 2}.get(bullet_char, 0)
bullet_level(bullet_char) ==
    IF bullet_char = "+" THEN 1 ELSE IF bullet_char = "-" THEN 2 ELSE 0

\* process_line: level = 1 if line[0].isalpha() else (2 if indented else 0)
numbered_level(l, indented) ==
    IF l[1] \in Letters THEN 1 ELSE IF indented THEN 2 ELSE 0

\* create_list_item that never continues the previous item's numbering
create_list_item_restart(doc, nums, l, prev, level, num, in_l, in_m, lineno) ==
    LET doc1 == create_paragraph(doc, l, IF num THEN STYLE_LIST_NUMBER ELSE STYLE_LIST_BULLET,
                                 in_m, lineno)
    IN  list_number(doc1, nums, Len(doc1), 0, level, num)

\* create_bullet_list_item / create_numbered_list_item: [document, numbering, error]
create_list_item(doc, nums, l, prev, level, num, in_l, in_m, lineno) ==
    LET doc1 == create_paragraph(doc, l, IF num THEN STYLE_LIST_NUMBER ELSE STYLE_LIST_BULLET,
                                 in_m, lineno)
    IN  list_number(doc1, nums, Len(doc1), IF in_l THEN prev ELSE 0, level, num)

\* get_cells(line)
get_cells(l) ==
    LET parts == Split(StripChars(l, {"|", " "}), "|")
    IN  [i \in 1..Len(parts) |-> strip(parts[i])]

Min2(a, b) == IF a <= b THEN a ELSE b

\* process_header_row(line): the table it adds to the document
process_header_row(l, lineno) ==
    LET cells == get_cells(l)
        header == [cells |-> [i \in 1..Len(cells) |->
                                 Cell(format_paragraph(<<>>, cells[i]), None, None)],
                   lineno |-> lineno]
    IN  Table(<<header>>, lineno)

\* cell_alignment_of with its two regular expressions tested in the other order
cell_alignment_swapped(md_cell) ==
    IF md_cell # <<>> /\ md_cell[Len(md_cell)] = ":" THEN ALIGN_RIGHT
    ELSE IF Len(md_cell) >= 2 /\ md_cell[1] = ":" /\ md_cell[Len(md_cell)] = ":"
    THEN ALIGN_CENTER
    ELSE ALIGN_LEFT

\* process_table_row_alignment: the alignment of one cell of the line
cell_alignment_of(md_cell) ==
    IF Len(md_cell) >= 2 /\ md_cell[1] = ":" /\ md_cell[Len(md_cell)] = ":"
    THEN ALIGN_CENTER
    ELSE IF md_cell # <<>> /\ md_cell[Len(md_cell)] = ":" THEN ALIGN_RIGHT
    ELSE ALIGN_LEFT

\* process_table_row_alignment(line, table): [table, error].
\* cell_alignment[index] raises IndexError at the first cell of a row that the
\* line has no cell for; the cells before it have been aligned by then.
process_table_row_alignment(l, table) ==
    LET md_cells == get_cells(l)
        cell_alignment == [i \in 1..Len(md_cells) |-> cell_alignment_of(md_cells[i])]
        ncols == Len(table.rows[1].cells)
        \* rows are done in order; the loop stops in the first row that is too wide
        done(r) == IF ncols > Len(md_cells) THEN (IF r = 1 THEN Len(md_cells) ELSE 0)
                   ELSE ncols
    IN  [table |-> [table EXCEPT !.rows =
                       [r \in 1..Len(table.rows) |->
                           [table.rows[r] EXCEPT !.cells =
                               [i \in 1..ncols |->
                                   IF i <= done(r)
                                   THEN [table.rows[r].cells[i] EXCEPT
                                            !.alignment = cell_alignment[i]]
                                   ELSE table.rows[r].cells[i]]]]],
         error |-> IF ncols > Len(md_cells) THEN "IndexError" ELSE None]

\* process_table_row_content(line, table): [table, error].
\* row_cells[index] raises IndexError at the first cell of the line beyond the
\* table's columns; the cells before it have been filled by then.
process_table_row_content(l, table, lineno) ==
    LET md_cells == get_cells(l)
        ncols == Len(table.rows[1].cells)
        filled == Min2(ncols, Len(md_cells))
        row == [cells |-> [i \in 1..ncols |->
                              IF i <= filled
                              THEN Cell(format_paragraph(<<>>, md_cells[i]),
                                        table.rows[1].cells[i].alignment, "auto")
                              ELSE EmptyCell],
                lineno |-> lineno]
    IN  [table |-> [table EXCEPT !.rows = Append(table.rows, row)],
         error |-> IF Len(md_cells) > ncols THEN "IndexError" ELSE None]

\* process_table_row: is the line taken as the alignment row?
IsAlignmentLine(l, table) == Len(table.rows) = 1 /\ Contains(l, <<"-", "-", "-">>)

\* process_table_row(line, table): [table, error]
process_table_row(l, table, lineno) ==
    IF IsAlignmentLine(l, table)
    THEN process_table_row_alignment(l, table)
    ELSE process_table_row_content(l, table, lineno)

----------------------------------------------------------------------------
(* The run of format_document.__init__: one action per branch of process_line *)

\* lines of an input file with lists, headings, paragraphs, a table and a
\* directive wrapper (none of them blank: blank lines are filtered out before
\* the loop)
InputLines ==
    {
     <<"*", " ", "a">>,   \* "* a"
     <<"+", " ", "b">>,   \* "+ b"
     <<"-", " ", "c">>,   \* "- c"
     <<"1", ".", " ", "d">>,   \* "1. d"
     <<"a", ".", " ", "e">>,   \* "a. e"
     <<" ", "2", ".", " ", "f">>,   \* " 2. f"
     <<"#", " ", "T">>,   \* "# T"
     <<"#", "#", " ", "U">>,   \* "## U"
     <<"#", " ", "a", " ", "#", " ", "b">>,   \* "# a # b"
     <<"B", "i", "j", "l", "a", "g", "e", "n">>,   \* "Bijlagen"
     <<"x">>,   \* "x"
     <<"|", "A", "|", "B", "|">>,   \* "|A|B|"
     <<"@", "{", "*", " ", "m">>,   \* "@{* m"
     <<"n", " ", "}", "@">>    \* "n }@"
    }

\* lines of an input file with tables
TableLines ==
    {
     <<"|", "A", "|", "B", "|">>,   \* "|A|B|"
     <<"|", "-", "-", "-", "|", ":", "-", "-", "-", ":", "|">>,   \* "|---|:---:|"
     <<"|", "1", "|", "2", "|">>,   \* "|1|2|"
     <<"|", "1", "|">>,   \* "|1|"
     <<"|", "1", "|", "2", "|", "3", "|">>,   \* "|1|2|3|"
     <<"|", ":", "-", "-", "-", "|">>,   \* "|:---|"
     <<"|", "-", "-", "-", ":", "|", "-", "-", "-", "|", "-", "-", "-", "|">>,   \* "|---:|---|---|"
     <<"|", "a", "-", "-", "-", "b", "|", "c", "|">>,   \* "|a---b|c|"
     <<"|", "-", "-", "|", "-", "-", "|">>,   \* "|--|--|"
     <<"x">>    \* "x"
    }

\* ICTUDocument.__init__: the paragraphs of the front page and table of contents
\* (pictures, page breaks and the contents field are paragraphs without text)
FrontMatter(title) ==
    LET text(t, style) == Paragraph(style, <<add_run(t)>>, 0)
        blank == Paragraph(STYLE_NORMAL, <<>>, 0)
    IN  <<blank,
          text(title, "Title"),
          Paragraph("Compact", <<[add_run(<<"{", "P", "r", "o", "j", "e", "c", "t", "n", "a", "a", "m", "}">>) EXCEPT
                                     !.style = STYLE_INSTRUCTION, !.bold = "True"]>>, 0),
          blank,
          Paragraph("Compact", <<add_run(<<"V", "e", "r", "s", "i", "e", " ">>),
                                 [add_run(<<"{", "v", "e", "r", "s", "i", "e", "n", "u", "m", "m", "e", "r", "}">>) EXCEPT !.style = STYLE_INSTRUCTION]>>, 0),
          Paragraph("Compact", <<add_run(<<"D", "a", "t", "u", "m", " ">>),
                                 [add_run(<<"{", "d", "a", "t", "u", "m", "}">>) EXCEPT !.style = STYLE_INSTRUCTION]>>, 0),
          blank, blank, blank, blank,
          blank,
          blank,
          text(<<"I", "n", "h", "o", "u", "d", "s", "o", "p", "g", "a", "v", "e">>, "Kop inhoudsopgave 1"),
          blank,
          blank>>

\* document titles given on the command line
Titles == {<<"D", "o", "c">>, <<"B", "i", "j", "l", "a", "g", "e", "n">>}

\* numbering definitions of the reference document: one with a single-level
\* definition per list style, one with multi-level definitions per number format
Lvl(ilvl, pStyle, numFmt) == [ilvl |-> ilvl, pStyle |-> pStyle, numFmt |-> numFmt]

NumberingTemplates ==
    { { [id |-> 0, lvls |-> {Lvl(0, "Lijstnummering1", "decimal")}],
        [id |-> 1, lvls |-> {Lvl(0, "Lijstopsomteken1", "bullet")}] },
      { [id |-> 2, lvls |-> {Lvl(0, None, "decimal"), Lvl(1, None, "lowerLetter"),
                             Lvl(2, None, "decimal")}],
        [id |-> 3, lvls |-> {Lvl(0, None, "bullet"), Lvl(1, None, "bullet"),
                             Lvl(2, None, "bullet")}] } }

FpIdle ==
    /\ arg_line = <<>>
    /\ line = <<>>
    /\ buffer = <<>>
    /\ processed_line = <<>>
    /\ runs = <<>>
    /\ pc = "idle"

Init ==
    /\ FpIdle
    /\ ExtIdle
    /\ in_list = FALSE
    /\ in_maatregel = FALSE
    /\ \E title \in Titles : document = FrontMatter(title)
    /\ previous = 0
    /\ numbering = <<>>
    /\ abstract_nums \in NumberingTemplates
    /\ error = None
    /\ consumed = <<>>

\* the loop of __init__ takes the next line; process_line starts with
\* process_maatregel_line on the stripped line
CanRead == error = None /\ Len(consumed) < MaxLines

Pre(raw) == process_maatregel_line(strip(raw), in_maatregel)

\* `if leaving_maatregel: self.in_maatregel = False`, not reached after an exception
AfterLine(raw, pre, err) ==
    /\ in_maatregel' = IF err = None /\ pre.leaving_maatregel
                       THEN FALSE ELSE pre.in_maatregel
    /\ error' = err
    /\ consumed' = Append(consumed, raw)
    /\ UNCHANGED <<fp_vars, ext_vars>>
    /\ UNCHANGED abstract_nums

\* process_line, a line that starts with "|" and does not follow a table
HeaderRowLine(Lines) ==
    \E raw \in Lines : \E pre \in {Pre(raw)} :
        /\ CanRead
        /\ Classify(pre.line) = "table"
        /\ ~(previous # 0 /\ document[previous].kind = "table")
        /\ document' = Append(document, process_header_row(pre.line, Len(consumed) + 1))
        /\ previous' = Len(document) + 1
        /\ UNCHANGED <<in_list, numbering>>
        /\ AfterLine(raw, pre, None)

\* process_line, a line that starts with "|" and follows a table
TableRowLine(Lines) ==
    \E raw \in Lines : \E pre \in {Pre(raw)} :
        /\ CanRead
        /\ Classify(pre.line) = "table"
        /\ previous # 0 /\ document[previous].kind = "table"
        /\ \E r \in {process_table_row(pre.line, document[previous], Len(consumed) + 1)} :
               /\ document' = [document EXCEPT ![previous] = r.table]
               /\ AfterLine(raw, pre, r.error)
        /\ UNCHANGED <<in_list, numbering, previous>>

\* process_line, a line that starts with "#"
HeadingLine(Lines) ==
    \E raw \in Lines : \E pre \in {Pre(raw)} :
        /\ CanRead
        /\ Classify(pre.line) = "heading"
        /\ \E r \in {create_heading(document, pre.line, Len(consumed) + 1)} :
               /\ document' = r.document
               /\ previous' = IF r.error = None THEN Len(r.document) ELSE previous
               /\ AfterLine(raw, pre, r.error)
        /\ in_list' = FALSE
        /\ UNCHANGED numbering

\* process_line, a bullet list line
BulletLine(Lines) ==
    \E raw \in Lines : \E pre \in {Pre(raw)} :
        /\ CanRead
        /\ Classify(pre.line) = "bullet"
        /\ \E text \in {strip(Drop(pre.line, 2))} :
           \E r \in {create_list_item(document, numbering, text, previous,
                                      bullet_level(pre.line[1]), FALSE, in_list,
                                      pre.in_maatregel, Len(consumed) + 1)} :
               /\ document' = r.document
               /\ numbering' = r.numbering
               /\ in_list' = IF r.error = None THEN TRUE ELSE in_list
               /\ previous' = IF r.error = None THEN Len(r.document) ELSE previous
               /\ AfterLine(raw, pre, r.error)

\* process_line, a numbered list line
NumberedLine(Lines) ==
    \E raw \in Lines : \E pre \in {Pre(raw)} :
        /\ CanRead
        /\ Classify(pre.line) = "numbered"
        /\ \E text \in {strip(Drop(pre.line, AlnumPrefixLen(pre.line) + 2))} :
           \E r \in {create_list_item(document, numbering, text, previous,
                                      numbered_level(pre.line, startswith(raw, <<" ">>)),
                                      TRUE, in_list, pre.in_maatregel,
                                      Len(consumed) + 1)} :
               /\ document' = r.document
               /\ numbering' = r.numbering
               /\ in_list' = IF r.error = None THEN TRUE ELSE in_list
               /\ previous' = IF r.error = None THEN Len(r.document) ELSE previous
               /\ AfterLine(raw, pre, r.error)

\* process_line, any other line: a regular text paragraph
ParagraphLine(Lines) ==
    \E raw \in Lines : \E pre \in {Pre(raw)} :
        /\ CanRead
        /\ Classify(pre.line) = "paragraph"
        /\ document' = create_paragraph(document, pre.line, STYLE_NORMAL,
                                        pre.in_maatregel, Len(consumed) + 1)
        /\ previous' = Len(document) + 1
        /\ in_list' = FALSE
        /\ UNCHANGED numbering
        /\ AfterLine(raw, pre, None)

Next ==
    \/ HeaderRowLine(InputLines)
    \/ TableRowLine(InputLines)
    \/ HeadingLine(InputLines)
    \/ BulletLine(InputLines)
    \/ NumberedLine(InputLines)
    \/ ParagraphLine(InputLines)

Spec == Init /\ [][Next]_vars

\* the same program on an input file of table lines
NextTable ==
    \/ HeaderRowLine(TableLines)
    \/ TableRowLine(TableLines)
    \/ ParagraphLine(TableLines)

SpecTable == Init /\ [][NextTable]_vars

\* lines of an input file with every kind of block, markers with and without
\* the space after them, and indented lines
BlockLines ==
    {
     <<"#", "#", "#", "#", " ", "V">>,   \* "#### V"
     <<"#", "T">>,   \* "#T"
     <<"*", "x">>,   \* "*x"
     <<"1", ".", "x">>,   \* "1.x"
     <<"*", " ", "a">>,   \* "* a"
     <<"+", " ", "b">>,   \* "+ b"
     <<"-", " ", "c">>,   \* "- c"
     <<"1", ".", " ", "d">>,   \* "1. d"
     <<"a", ".", " ", "e">>,   \* "a. e"
     <<"a", "1", ".", " ", "g">>,   \* "a1. g"
     <<" ", "2", ".", " ", "f">>,   \* " 2. f"
     <<" ", "*", " ", "i">>,   \* " * i"
     <<"|", "A", "|">>    \* "|A|"
    }

\* the same program on that input file
NextBlocks ==
    \/ HeaderRowLine(BlockLines)
    \/ TableRowLine(BlockLines)
    \/ HeadingLine(BlockLines)
    \/ BulletLine(BlockLines)
    \/ NumberedLine(BlockLines)
    \/ ParagraphLine(BlockLines)

SpecBlocks == Init /\ [][NextBlocks]_vars

\* lines of an input file with directive wrappers, opened, closed, both on one
\* line, and closed without being open
DirectiveLines ==
    {
     <<"@", "{", "*", " ", "m">>,   \* "@{* m"
     <<"n", " ", "}", "@">>,   \* "n }@"
     <<"@", "{", "p", "}", "@">>,   \* "@{p}@"
     <<" ", "@", "{", "q">>,   \* " @{q"
     <<"x">>,   \* "x"
     <<"1", ".", " ", "d">>,   \* "1. d"
     <<"|", "B", "|">>,   \* "|B|"
     <<"#", " ", "T">>    \* "# T"
    }

\* the same program on that input file
NextDirective ==
    \/ HeaderRowLine(DirectiveLines)
    \/ TableRowLine(DirectiveLines)
    \/ HeadingLine(DirectiveLines)
    \/ BulletLine(DirectiveLines)
    \/ NumberedLine(DirectiveLines)
    \/ ParagraphLine(DirectiveLines)

SpecDirective == Init /\ [][NextDirective]_vars

----------------------------------------------------------------------------
(* format_paragraph run step by step: one action per branch of the while loop *)

Alphabet == {"a", "*", "_", "~", "{", "}"}

\* "**bold** and _italic_"
ExampleBoldItalic ==
    <<"*", "*", "b", "o", "l", "d", "*", "*", " ", "a", "n", "d", " ",
      "_", "i", "t", "a", "l", "i", "c", "_">>

\* "*a* *b*"
ExampleTwoItalics == <<"*", "a", "*", " ", "*", "b", "*">>

\* "**a _b_ c**"
ExampleNested == <<"*", "*", "a", " ", "_", "b", "_", " ", "c", "*", "*">>

\* "{a} b}"
ExampleStrayBrace == <<"{", "a", "}", " ", "b", "}">>

ExampleLines == {ExampleBoldItalic, ExampleTwoItalics, ExampleNested, ExampleStrayBrace}

ParaLines == UNION {[1..n -> Alphabet] : n \in 0..MaxLen} \cup ExampleLines

Locals == [line |-> line, buffer |-> buffer, processed_line |-> processed_line,
           runs |-> runs]

SetLocals(s) ==
    /\ line' = s.line
    /\ buffer' = s.buffer
    /\ processed_line' = s.processed_line
    /\ runs' = s.runs

DocIdle ==
    /\ in_list = FALSE
    /\ in_maatregel = FALSE
    /\ document = <<>>
    /\ previous = 0
    /\ numbering = <<>>
    /\ abstract_nums = {}
    /\ error = None
    /\ consumed = <<>>

InitPara ==
    /\ arg_line \in ParaLines
    /\ line = arg_line
    /\ buffer = <<>>
    /\ processed_line = <<>>
    /\ runs = <<>>
    /\ pc = "scan"
    /\ DocIdle
    /\ ExtIdle

\* while line: a start marker with its end marker later in the line
StartMarker ==
    /\ pc = "scan" /\ line # <<>>
    /\ Branch(line, processed_line) = "start"
    /\ SetLocals(FpStep(Locals))
    /\ UNCHANGED <<arg_line, pc>> /\ UNCHANGED <<doc_vars, ext_vars>>

\* while line: an end marker whose start marker occurs in processed_line
EndMarker ==
    /\ pc = "scan" /\ line # <<>>
    /\ Branch(line, processed_line) = "end"
    /\ SetLocals(FpStep(Locals))
    /\ UNCHANGED <<arg_line, pc>> /\ UNCHANGED <<doc_vars, ext_vars>>

\* while line: the else clause of the for loop
LiteralChar ==
    /\ pc = "scan" /\ line # <<>>
    /\ Branch(line, processed_line) = "literal"
    /\ SetLocals(FpStep(Locals))
    /\ UNCHANGED <<arg_line, pc>> /\ UNCHANGED <<doc_vars, ext_vars>>

\* the loop has ended: flush the rest of the buffer and return
Return ==
    /\ pc = "scan" /\ line = <<>>
    /\ runs' = FpFinish(Locals)
    /\ pc' = "done"
    /\ UNCHANGED <<arg_line, line, buffer, processed_line>> /\ UNCHANGED <<doc_vars, ext_vars>>

NextPara == StartMarker \/ EndMarker \/ LiteralChar \/ Return

SpecPara == InitPara /\ [][NextPara]_vars

----------------------------------------------------------------------------
(* Properties of format_paragraph (checked under SpecPara) *)

MarkerChars == {"*", "_", "~", "{", "}"}

\* the style tag of a run: none, bold, italic, strikethrough or instruction
RunStyle(r) ==
    IF r.style = STYLE_INSTRUCTION THEN "instruction"
    ELSE IF r.bold = "True" THEN "bold"
    ELSE IF r.italic = "True" THEN "italic"
    ELSE IF r.strike = "True" THEN "strikethrough"
    ELSE "none"

RunTag(r) == <<r.text, RunStyle(r)>>

RunTags(rs) == [i \in 1..Len(rs) |-> RunTag(rs[i])]

PairStyle == <<"bold", "bold", "italic", "italic", "strikethrough", "instruction">>

\* number of leading characters of l that are no marker characters
PlainPrefixLen(l) ==
    CHOOSE n \in 0..Len(l) :
        /\ \A i \in 1..n : l[i] \notin MarkerChars
        /\ n = Len(l) \/ l[n + 1] \in MarkerChars

\* the marker pairs k for which l is: start marker, non-empty plain text, end marker, ...
PairAt(l) ==
    {k \in 1..Len(md_format_markers) :
        /\ startswith(l, md_format_start(k))
        /\ LET rest == Drop(l, Len(md_format_start(k)))
               n == PlainPrefixLen(rest)
           IN  n > 0 /\ startswith(Drop(rest, n), md_format_end(k))}

\* Reading of a line as plain text and marker pairs around plain text:
\* ok is FALSE when some marker character belongs to no such pair,
\* spans are the <<text, style>> of the pairs, in line order.
RECURSIVE MatchedPairs(_)
MatchedPairs(l) ==
    IF l = <<>> THEN [ok |-> TRUE, spans |-> <<>>]
    ELSE IF l[1] \notin MarkerChars THEN MatchedPairs(Tail(l))
    ELSE IF PairAt(l) = {} THEN [ok |-> FALSE, spans |-> <<>>]
    ELSE LET k == CHOOSE k \in PairAt(l) : TRUE
             rest == Drop(l, Len(md_format_start(k)))
             n == PlainPrefixLen(rest)
             inner == SubSeq(rest, 1, n)
             text == IF k = Len(md_format_markers)
                     THEN md_format_start(k) \o inner \o md_format_end(k)
                     ELSE inner
             r == MatchedPairs(Drop(rest, n + Len(md_format_end(k))))
         IN  [ok |-> r.ok, spans |-> << <<text, PairStyle[k]>> >> \o r.spans]

\* C1: for every line made of plain text and correctly matched marker pairs,
\* once format_paragraph has returned, every pair has a run whose text is the
\* text between the markers (braces kept) and whose style is the marker's.
C1_EveryPairStyled ==
    pc = "done" =>
        LET m == MatchedPairs(arg_line)
        IN  m.ok => \A i \in 1..Len(m.spans) :
                        \E j \in 1..Len(runs) : RunTag(runs[j]) = m.spans[i]

\* no start marker of the line has its end marker later in the line
NoMarkerMatched(l) ==
    \A i \in 1..Len(l) : \A k \in 1..Len(md_format_markers) :
        startswith(Drop(l, i - 1), md_format_start(k)) =>
            ~Contains(Drop(l, i - 1 + Len(md_format_start(k))), md_format_end(k))

C3_ExampleRuns ==
    (pc = "done" /\ arg_line = ExampleBoldItalic) =>
        RunTags(runs) = << <<SubSeq(ExampleBoldItalic, 3, 6), "bold">>,
                           <<SubSeq(ExampleBoldItalic, 9, 13), "none">>,
                           <<SubSeq(ExampleBoldItalic, 15, 20), "italic">> >>

----------------------------------------------------------------------------
(* Properties of process_line (checked under Spec and SpecTable) *)

\* the block type of a raw input line, by its own text
LineClass(raw) == Classify(process_maatregel_line(strip(raw), FALSE).line)

\* the text of the raw line after the directive wrapper start is stripped
Unwrapped(raw) == process_maatregel_line(strip(raw), FALSE).line

\* process_line returned for consumed line n (no exception ended it)
Handled(n) == ~(error # None /\ n = Len(consumed))

HasElem(n) == \E j \in 1..Len(document) : document[j].lineno = n

\* the paragraph or table that consumed line n added to the document
ElemOf(n) == document[CHOOSE j \in 1..Len(document) : document[j].lineno = n]

IsListClass(c) == c \in {"bullet", "numbered"}

\* the level a list line's own marker stands for
MarkerLevel(raw) ==
    LET l == Unwrapped(raw)
    IN  IF LineClass(raw) = "bullet"
        THEN (IF l[1] = "*" THEN 0 ELSE IF l[1] = "+" THEN 1 ELSE 2)
        ELSE (IF l[1] \in Letters THEN 1 ELSE IF raw[1] = " " THEN 2 ELSE 0)

\* C4: of two consecutive list lines of the same kind, the second item has the
\* numbering identity of the first (so a whole run shares the identity of its
\* first item), and every list item handled has the level of its own marker.
C4_RunSharesNumId ==
    /\ \A n \in 2..Len(consumed) :
          (/\ IsListClass(LineClass(consumed[n]))
           /\ LineClass(consumed[n - 1]) = LineClass(consumed[n])) =>
              /\ HasElem(n) /\ HasElem(n - 1)
              /\ ElemOf(n).numId # 0
              /\ ElemOf(n).numId = ElemOf(n - 1).numId
    /\ \A n \in 1..Len(consumed) :
          (IsListClass(LineClass(consumed[n])) /\ Handled(n)) =>
              HasElem(n) /\ ElemOf(n).ilvl = MarkerLevel(consumed[n])

\* C4 witness: three consecutive bullet lines at levels 0, 1, 2 with one identity
C4_Witness ==
    /\ Len(consumed) = 3
    /\ \A n \in 1..3 : LineClass(consumed[n]) = "bullet" /\ HasElem(n)
    /\ ElemOf(1).ilvl = 0 /\ ElemOf(2).ilvl = 1 /\ ElemOf(3).ilvl = 2
    /\ ElemOf(1).numId # 0
    /\ ElemOf(2).numId = ElemOf(1).numId /\ ElemOf(3).numId = ElemOf(1).numId

\* C5: after a line classified as a non-list block (table row, heading or plain
\* paragraph) list mode is off.
C5_NonListClearsListMode ==
    (Len(consumed) > 0 /\ ~IsListClass(LineClass(consumed[Len(consumed)]))) =>
        in_list = FALSE

\* consumed line n is a pipe line that follows a table line: process_table_row
IsTableRowLine(n) ==
    n >= 2 /\ LineClass(consumed[n]) = "table" /\ LineClass(consumed[n - 1]) = "table"

\* the header line of the table that pipe line n belongs to
HeaderLineOf(n) ==
    CHOOSE h \in 1..n :
        /\ \A m \in h..n : LineClass(consumed[m]) = "table"
        /\ h = 1 \/ LineClass(consumed[h - 1]) # "table"

TableOf(n) == ElemOf(HeaderLineOf(n))

HasRowFor(n) == \E r \in 1..Len(TableOf(n).rows) : TableOf(n).rows[r].lineno = n

RowFor(n) ==
    TableOf(n).rows[CHOOSE r \in 1..Len(TableOf(n).rows) : TableOf(n).rows[r].lineno = n]

\* C6: a pipe line that follows a table line is accepted without an error
\* whatever its number of cells, and a data row holds the line's cells as given.
C6_AnyCellCountAccepted ==
    \A n \in 1..Len(consumed) :
        IsTableRowLine(n) =>
            /\ Handled(n)
            /\ HasRowFor(n) =>
                  \A i \in 1..Len(get_cells(consumed[n])) :
                      /\ i <= Len(RowFor(n).cells)
                      /\ ParagraphText(RowFor(n).cells[i].runs) = get_cells(consumed[n])[i]

\* a cell made of dashes with an optional colon in front and an optional colon behind
IsDashCell(c) ==
    LET body == StripChars(c, {":"})
    IN  /\ body # <<>>
        /\ \A i \in 1..Len(body) : body[i] = "-"
        /\ Len(c) - Len(body) <= 2
        /\ Len(c) - Len(body) = 2 => (c[1] = ":" /\ c[Len(c)] = ":")

AllDashCells(raw) == \A i \in 1..Len(get_cells(raw)) : IsDashCell(get_cells(raw)[i])

\* the table of pipe line n held only its header row when line n was read
HeaderOnlyBefore(n) ==
    \A r \in 1..Len(TableOf(n).rows) :
        TableOf(n).rows[r].lineno < n => TableOf(n).rows[r].lineno = HeaderLineOf(n)

\* C7: a pipe line that follows a table line adds no data row (it is the
\* alignment specification) exactly when the table held only its header row
\* and every cell of the line is a dash cell; every other one is a data row.
C7_AlignmentRowIffDashCells ==
    \A n \in 1..Len(consumed) :
        (IsTableRowLine(n) /\ Handled(n)) =>
            (~HasRowFor(n) <=> (HeaderOnlyBefore(n) /\ AllDashCells(consumed[n])))

\* the alignment a cell of the alignment row asks for
AlignmentAskedBy(c) ==
    IF c[1] = ":" /\ c[Len(c)] = ":" THEN ALIGN_CENTER
    ELSE IF c[Len(c)] = ":" THEN ALIGN_RIGHT
    ELSE ALIGN_LEFT

\* pipe line n was taken as the alignment row of its table
TakenAsAlignment(n) == IsTableRowLine(n) /\ ~HasRowFor(n)

\* ... and no later line was taken as the alignment row of the same table
LastAlignment(n) ==
    /\ TakenAsAlignment(n)
    /\ \A m \in (n + 1)..Len(consumed) :
          ~(TakenAsAlignment(m) /\ HeaderLineOf(m) = HeaderLineOf(n))

\* C8: the header cell of column i has the alignment asked by cell i of the
\* (last) alignment row (center for a colon on both sides, right for a trailing colon
\* only, left otherwise), and every cell of a data row has the alignment of
\* the header cell of its column.
C8_AlignmentPerColumn ==
    \A n \in 1..Len(consumed) :
        /\ LastAlignment(n) =>
              \A i \in 1..Len(get_cells(consumed[n])) :
                  i <= Len(TableOf(n).rows[1].cells) =>
                      TableOf(n).rows[1].cells[i].alignment =
                          AlignmentAskedBy(get_cells(consumed[n])[i])
        /\ (IsTableRowLine(n) /\ HasRowFor(n)) =>
              \A i \in 1..Len(get_cells(consumed[n])) :
                  i <= Len(RowFor(n).cells) =>
                      RowFor(n).cells[i].alignment = TableOf(n).rows[1].cells[i].alignment

\* C8 witness: header, alignment row (left, center), data row with both cells aligned
C8_Witness ==
    /\ Len(consumed) = 3 /\ error = None
    /\ TakenAsAlignment(2)
    /\ IsTableRowLine(3) /\ HasRowFor(3)
    /\ Len(RowFor(3).cells) = 2
    /\ TableOf(3).rows[1].cells[1].alignment = ALIGN_LEFT
    /\ TableOf(3).rows[1].cells[2].alignment = ALIGN_CENTER
    /\ RowFor(3).cells[1].alignment = ALIGN_LEFT
    /\ RowFor(3).cells[2].alignment = ALIGN_CENTER

\* number of "#" characters at the start of l
LeadingHashes(l) ==
    CHOOSE k \in 0..Len(l) :
        /\ \A i \in 1..k : l[i] = "#"
        /\ k = Len(l) \/ l[k + 1] # "#"

\* C9: a heading has the level given by the number of "#" at the start of its
\* line; "#" elsewhere in the line does not change the level and stays in the text.
C9_LevelIsLeadingHashes ==
    \A n \in 1..Len(consumed) :
        (LineClass(consumed[n]) = "heading" /\ Handled(n)) =>
            LET l == Unwrapped(consumed[n])
                k == LeadingHashes(l)
            IN  /\ HasElem(n)
                /\ ElemOf(n).style \in {HeadingStyle[k], bijlage_heading_style(k)}
                /\ ParagraphText(ElemOf(n).runs) = strip(Drop(l, k))

AppendixStyles ==
    {STYLE_APPENDIX_HEADING1, STYLE_APPENDIX_HEADING2, STYLE_APPENDIX_HEADING3}

\* the headings of the document: positions of the elements made from heading lines
IsHeadingAt(j) ==
    /\ document[j].lineno > 0
    /\ LineClass(consumed[document[j].lineno]) = "heading"

SameIgnoringCase(a, b) ==
    Len(a) = Len(b) /\ \A i \in 1..Len(a) : UpperChar(a[i]) = UpperChar(b[i])

\* a top-level paragraph before position j has the text BIJLAGEN, ignoring case
BijlagenBefore(j) ==
    \E i \in 1..(j - 1) :
        /\ document[i].kind = "paragraph"
        /\ SameIgnoringCase(ParagraphText(document[i].runs), BIJLAGEN)

\* C10: a heading has an appendix style exactly when a top-level block with the
\* text BIJLAGEN (ignoring case) was in the document before it; so every
\* heading after an appendix heading is an appendix heading too.
C10_AppendixIffBijlagenBefore ==
    /\ \A j \in 1..Len(document) :
          IsHeadingAt(j) => (document[j].style \in AppendixStyles <=> BijlagenBefore(j))
    /\ \A j \in 1..Len(document) : \A k \in (j + 1)..Len(document) :
          (IsHeadingAt(j) /\ IsHeadingAt(k) /\ document[j].style \in AppendixStyles)
              => document[k].style \in AppendixStyles

\* C10 witness: a normal heading, then a BIJLAGEN paragraph from the input,
\* then an appendix heading
C10_Witness ==
    \E j \in 1..Len(document) : \E k \in (j + 1)..Len(document) :
        /\ IsHeadingAt(j) /\ document[j].style \notin AppendixStyles
        /\ IsHeadingAt(k) /\ document[k].style \in AppendixStyles
        /\ \E i \in (j + 1)..(k - 1) :
              /\ document[i].lineno > 0 /\ document[i].kind = "paragraph"
              /\ SameIgnoringCase(ParagraphText(document[i].runs), BIJLAGEN)

----------------------------------------------------------------------------
(* Properties of appendix headings (checked under SpecBlocks) *)

\* the appendix heading style of each level that has one
AppendixHeadingStyleOf ==
    <<STYLE_APPENDIX_HEADING1, STYLE_APPENDIX_HEADING2, STYLE_APPENDIX_HEADING3>>

\* C11: a heading of level n made in appendix mode (its style is not the normal
\* heading style of its level) has the appendix heading style of level n.
C11_AppendixStyleSameLevel ==
    \A n \in 1..Len(consumed) :
        (LineClass(consumed[n]) = "heading" /\ HasElem(n)) =>
            LET k == LeadingHashes(Unwrapped(consumed[n]))
            IN  ElemOf(n).style # HeadingStyle[k] =>
                    /\ k \in DOMAIN AppendixHeadingStyleOf
                    /\ ElemOf(n).style = AppendixHeadingStyleOf[k]

----------------------------------------------------------------------------
(* Properties of the directive wrapper (checked under SpecDirective) *)

\* the line, as process_line gets it, begins with "@{"
BeginsDirective(raw) == startswith(strip(raw), MEASURE_START)

\* the line contains "}@"
HasDirectiveEnd(raw) == Contains(raw, MEASURE_END)

\* a line at or before n begins with "@{" and no line from that one up to,
\* but not including, line n contains "}@"
DirectiveOnAt(n) ==
    \E m \in 1..n :
        /\ BeginsDirective(consumed[m])
        /\ \A j \in m..(n - 1) : ~HasDirectiveEnd(consumed[j])

\* ... and line n does not contain it either
DirectiveOpenAfter(n) == DirectiveOnAt(n) /\ ~HasDirectiveEnd(consumed[n])

\* consumed line n made a paragraph whose style shows the mode it was made in
ShowsMode(n) == LineClass(consumed[n]) \in {"paragraph", "bullet", "numbered"} /\ HasElem(n)

\* C12: a line is processed in directive mode (its paragraph gets the
\* directive style) exactly when a line at or before it begins with "@{" and no
\* line from that one up to, not including, this one contains "}@"; after a
\* line the mode is on exactly when such a wrapper is open and the line does not
\* contain "}@"; a line with "}@" read while the mode is off keeps its text.
C12_DirectiveModeWindow ==
    /\ \A n \in 1..Len(consumed) :
          ShowsMode(n) => (ElemOf(n).style = STYLE_MAATREGEL <=> DirectiveOnAt(n))
    /\ (error = None /\ consumed # <<>>) =>
          (in_maatregel <=> DirectiveOpenAfter(Len(consumed)))
    /\ \A n \in 1..Len(consumed) :
          (ShowsMode(n) /\ ~DirectiveOnAt(n) /\ HasDirectiveEnd(consumed[n])) =>
              ParagraphText(ElemOf(n).runs) = strip(consumed[n])

\* C12 witness: a wrapper opened by line 1 and closed by line 2, both made in
\* directive mode, and a third line with "}@" read while the mode is off
C12_Witness ==
    /\ Len(consumed) = 3 /\ error = None
    /\ BeginsDirective(consumed[1])
    /\ ~HasDirectiveEnd(consumed[1]) /\ ~BeginsDirective(consumed[2])
    /\ HasDirectiveEnd(consumed[2]) /\ HasDirectiveEnd(consumed[3])
    /\ \A n \in 1..3 : ShowsMode(n)
    /\ ElemOf(1).style = STYLE_MAATREGEL /\ ElemOf(2).style = STYLE_MAATREGEL
    /\ ElemOf(3).style = STYLE_NORMAL
    /\ ParagraphText(ElemOf(3).runs) = strip(consumed[3])
    /\ in_maatregel = FALSE

\* C13: every paragraph, list item, heading or table that a line processed in
\* directive mode adds to the document has the directive style.
C13_DirectiveStyleOnEveryBlock ==
    \A n \in 1..Len(consumed) :
        (DirectiveOnAt(n) /\ HasElem(n)) => ElemOf(n).style = STYLE_MAATREGEL

----------------------------------------------------------------------------
(* Properties of the block classification (checked under SpecBlocks) *)

\* an alphanumeric token, "." and a space at the start of l
HasNumberToken(l) ==
    \E t \in 1..Len(l) :
        /\ \A i \in 1..t : l[i] \in Digits \cup Letters
        /\ Len(l) >= t + 2 /\ l[t + 1] = "." /\ l[t + 2] = " "

\* the rules of the classification in their order; the value is the number of the
\* first rule that matches, 5 when none does
FirstRule(l) ==
    LET rule(r) ==
            CASE r = 1 -> l # <<>> /\ l[1] = "|"
              [] r = 2 -> l # <<>> /\ l[1] = "#"
              [] r = 3 -> Len(l) >= 2 /\ l[1] \in {"*", "+", "-"} /\ l[2] = " "
              [] r = 4 -> HasNumberToken(l)
              [] r = 5 -> TRUE
    IN  CHOOSE r \in 1..5 : rule(r) /\ \A q \in 1..(r - 1) : ~rule(q)

\* the line of consumed line n after the directive wrapper is stripped
StrippedLine(n) == process_maatregel_line(strip(consumed[n]), FALSE).line

\* what consumed line n added to the document is a block of the type of rule r
BuiltAs(n, r) ==
    CASE r = 1 -> IF HasElem(n) THEN ElemOf(n).kind = "table"
                  ELSE n >= 2 /\ FirstRule(StrippedLine(n - 1)) = 1
      [] r = 2 -> /\ HasElem(n) /\ ElemOf(n).kind = "paragraph" /\ ElemOf(n).numId = 0
                  /\ \/ \E k \in DOMAIN HeadingStyle : ElemOf(n).style = HeadingStyle[k]
                     \/ ElemOf(n).style \in AppendixStyles
      [] r = 3 -> /\ HasElem(n) /\ ElemOf(n).kind = "paragraph" /\ ElemOf(n).numId # 0
                  /\ ElemOf(n).style = STYLE_LIST_BULLET
                  /\ ParagraphText(ElemOf(n).runs) = strip(Drop(StrippedLine(n), 2))
      [] r = 4 -> /\ HasElem(n) /\ ElemOf(n).kind = "paragraph" /\ ElemOf(n).numId # 0
                  /\ ElemOf(n).style = STYLE_LIST_NUMBER
      [] r = 5 -> /\ HasElem(n) /\ ElemOf(n).kind = "paragraph" /\ ElemOf(n).numId = 0
                  /\ ElemOf(n).style = STYLE_NORMAL
                  /\ ParagraphText(ElemOf(n).runs) = StrippedLine(n)

\* C14: every line that process_line handled was built as the block type of the
\* first rule that matches it, in the order table row, heading, bullet item,
\* numbered item, and as a plain paragraph when no rule matches; it was built
\* as no other block type.
C14_FirstMatchingRule ==
    \A n \in 1..Len(consumed) :
        Handled(n) =>
            \A r \in 1..5 : BuiltAs(n, r) <=> r = FirstRule(StrippedLine(n))

\* C14 witness: a line with a bullet character and no space after it built as a
\* plain paragraph, a token and "." without the space built as a plain
\* paragraph, and a bullet item
C14_Witness ==
    /\ Len(consumed) = 3 /\ error = None
    /\ \E n \in 1..3 : /\ StrippedLine(n)[1] \in {"*", "+", "-"}
                       /\ FirstRule(StrippedLine(n)) = 5 /\ BuiltAs(n, 5)
    /\ \E n \in 1..3 : /\ StrippedLine(n)[1] \in Digits
                       /\ FirstRule(StrippedLine(n)) = 5 /\ BuiltAs(n, 5)
    /\ \E n \in 1..3 : FirstRule(StrippedLine(n)) = 3 /\ BuiltAs(n, 3)

----------------------------------------------------------------------------
(* Properties of the list levels (checked under SpecBlocks) *)

\* the raw line began with whitespace
BeganWithWhitespace(raw) == raw # <<>> /\ raw[1] \in {" ", "\t"}

\* the alphanumeric token of a numbered line
NumberToken(l) == SubSeq(l, 1, CHOOSE t \in 1..Len(l) :
                                  /\ \A i \in 1..t : l[i] \in Digits \cup Letters
                                  /\ l[t + 1] = ".")

IsAlphabetic(token) == \A i \in 1..Len(token) : token[i] \in Letters

\* the level the rules give the list item of a raw line
RuleLevel(raw) ==
    LET l == process_maatregel_line(strip(raw), FALSE).line
    IN  IF FirstRule(l) = 3
        THEN (CASE l[1] = "*" -> 0 [] l[1] = "+" -> 1 [] l[1] = "-" -> 2)
        ELSE IF IsAlphabetic(NumberToken(l)) THEN 1
        ELSE IF BeganWithWhitespace(raw) THEN 2
        ELSE 0

\* C20: a bullet item has level 0, 1 or 2 for "*", "+" or "-"; a numbered item has
\* level 1 when its token is alphabetic, otherwise 2 when the raw line began
\* with whitespace, otherwise 0; so an indented bullet line has its bullet's level.
C20_ListLevels ==
    \A n \in 1..Len(consumed) :
        (FirstRule(StrippedLine(n)) \in {3, 4} /\ Handled(n)) =>
            HasElem(n) /\ ElemOf(n).ilvl = RuleLevel(consumed[n])

----------------------------------------------------------------------------
(* Properties of nested and stray markers (checked under SpecPara) *)

\* C18: in "**a _b_ c**" the text "a ", flushed when the start marker "_" is
\* recognized while bold is open, is a bold run.
C18_FlushCarriesOpenStyle ==
    (pc = "done" /\ arg_line = ExampleNested) =>
        \E j \in 1..Len(runs) : RunTag(runs[j]) = <<SubSeq(ExampleNested, 3, 4), "bold">>

\* C19: an end marker is honored only for a span that a start marker opened, so
\* every instruction run begins with its "{"; in "{a} b}" the second "}" is
\* literal text and " b}" is a run without a style.
C19_EndMarkerNeedsOpenStyle ==
    pc = "done" =>
        /\ \A j \in 1..Len(runs) :
              RunStyle(runs[j]) = "instruction" =>
                  runs[j].text # <<>> /\ runs[j].text[1] = MD_INSTRUCTION_START[1]
        /\ arg_line = ExampleStrayBrace =>
              \E j \in 1..Len(runs) :
                  RunTag(runs[j]) = <<SubSeq(ExampleStrayBrace, 4, 6), "none">>

----------------------------------------------------------------------------
(* convert.py: main converts the documents of the settings files one by one;
   convert compiles a document and replays it for each output format *)

\* the output formats, in the order convert tests for them
OutputFormatNames == <<"docx", "pdf", "pptx", "xlsx", "html">>

\* settings["OutputFormats"] of the settings files
OutputFormatChoices ==
    {{}, {"docx"}, {"pdf"}, {"docx", "html"}, {"pptx", "xlsx"},
     {"docx", "pdf", "pptx", "xlsx", "html"}}

MaxDocs == 2     \* number of settings files given to main

\* MarkdownConverter(variables).convert(settings), as a call made
Compile(d) == [op |-> "compile", doc |-> d, format |-> "None", builder |-> "None",
               ok |-> TRUE]

\* converter.convert(builder), as a call made; ok: it returned (no exception)
Replay(d, f, builder, ok) ==
    [op |-> "replay", doc |-> d, format |-> f, builder |-> builder, ok |-> ok]

InitConvert ==
    /\ FpIdle
    /\ DocIdle
    /\ BuilderIdle
    /\ \E n \in 1..MaxDocs : \E fs \in [1..n -> OutputFormatChoices] :
           settings_filenames = [d \in 1..n |-> [doc |-> d, OutputFormats |-> fs[d]]]
    /\ settings = "None"
    /\ conv_pc = "main"
    /\ calls = <<>>
    /\ outputs = {}

\* main: `for settings_filename in settings_filenames: convert(...)`, up to
\* `converter = Converter(xml)`; read_json raises when a file cannot be read
ConvertStart ==
    /\ conv_pc = "main" /\ settings_filenames # <<>>
    /\ settings' = Head(settings_filenames)
    /\ settings_filenames' = Tail(settings_filenames)
    /\ \E readable \in BOOLEAN :
          IF readable
          THEN /\ calls' = Append(calls, Compile(Head(settings_filenames).doc))
               /\ conv_pc' = OutputFormatNames[1]
          ELSE /\ calls' = calls
               /\ conv_pc' = "failed"
    /\ UNCHANGED outputs
    /\ UNCHANGED <<fp_vars, doc_vars, bld_vars>>

\* main: the loop has ended
MainReturn ==
    /\ conv_pc = "main" /\ settings_filenames = <<>>
    /\ conv_pc' = "done"
    /\ UNCHANGED <<settings_filenames, settings, calls, outputs>>
    /\ UNCHANGED <<fp_vars, doc_vars, bld_vars>>

\* where convert goes after the step for format number i
AfterFormat(i) == IF i < Len(OutputFormatNames) THEN OutputFormatNames[i + 1] ELSE "main"

\* `if f in settings["OutputFormats"]: convert_f(converter, settings)` with the
\* replays convert_f makes, one after the other, each against the builder named;
\* an exception of a replay ends convert and main
ConvertFormat(i, builder_kinds) ==
    /\ conv_pc = OutputFormatNames[i]
    /\ IF OutputFormatNames[i] \in settings.OutputFormats
       THEN \E failing \in 0..Len(builder_kinds) :
               \* failing = 0: every replay returns; else replay `failing` raises
               LET made == IF failing = 0 THEN Len(builder_kinds) ELSE failing
               IN  /\ calls' = calls \o [k \in 1..made |->
                                   Replay(settings.doc, OutputFormatNames[i],
                                          builder_kinds[k], k # failing)]
                   /\ outputs' = IF failing = 0
                                 THEN outputs \cup {<<settings.doc, OutputFormatNames[i]>>}
                                 ELSE outputs
                   /\ conv_pc' = IF failing = 0 THEN AfterFormat(i) ELSE "failed"
       ELSE /\ UNCHANGED <<calls, outputs>>
            /\ conv_pc' = AfterFormat(i)
    /\ settings' = IF conv_pc' = "main" THEN "None" ELSE settings
    /\ UNCHANGED settings_filenames
    /\ UNCHANGED <<fp_vars, doc_vars, bld_vars>>

convert_docx == ConvertFormat(1, <<"DocxBuilder">>)

\* convert_pdf replays the document twice: the body and the cover
convert_pdf == ConvertFormat(2, <<"HTMLBuilder", "HTMLCoverBuilder">>)

convert_pptx == ConvertFormat(3, <<"PptxBuilder">>)

convert_xlsx == ConvertFormat(4, <<"XlsxBuilder">>)

convert_html == ConvertFormat(5, <<"HTMLBuilder">>)

NextConvert ==
    \/ ConvertStart
    \/ convert_docx
    \/ convert_pdf
    \/ convert_pptx
    \/ convert_xlsx
    \/ convert_html
    \/ MainReturn

SpecConvert == InitConvert /\ [][NextConvert]_vars

----------------------------------------------------------------------------
(* Properties of convert (checked under SpecConvert) *)

\* the replays made so far for format f of document d: their positions in calls
ReplaysOf(d, f) ==
    {k \in 1..Len(calls) : calls[k].op = "replay" /\ calls[k].doc = d /\ calls[k].format = f}

\* C16: when a replay for one format of a document has failed and the program
\* has ended, every output written before is there, and every other requested
\* format of that document has had its replay all the same.
C16_FailureConfinedToFormat ==
    /\ \A k \in 1..Len(calls) :
          (calls[k].op = "replay" /\ calls[k].ok /\ calls[k].format # "pdf") =>
              <<calls[k].doc, calls[k].format>> \in outputs
    /\ (conv_pc = "failed" /\ \E k \in 1..Len(calls) : ~calls[k].ok) =>
          \A f \in settings.OutputFormats : ReplaysOf(settings.doc, f) # {}

\* C17: each document is compiled exactly once, before every replay of it; when
\* convert has come to the test for a format, each format tested before has had
\* exactly one replay if it was requested and none if not; and no replay is
\* made before the replays of the format before it have all returned.
C17_CompileOnceReplayOncePerFormat ==
    /\ \A k \in 1..Len(calls) :
          calls[k].op = "replay" =>
              \E c \in 1..(k - 1) : calls[c].op = "compile" /\ calls[c].doc = calls[k].doc
    /\ \A j, k \in 1..Len(calls) :
          (calls[j].op = "compile" /\ calls[k].op = "compile" /\ calls[j].doc = calls[k].doc)
              => j = k
    /\ \A i \in DOMAIN OutputFormatNames :
          conv_pc = OutputFormatNames[i] =>
              \A j \in 1..(i - 1) :
                  Cardinality(ReplaysOf(settings.doc, OutputFormatNames[j])) =
                      IF OutputFormatNames[j] \in settings.OutputFormats THEN 1 ELSE 0
    /\ \A k \in 2..Len(calls) :
          calls[k].op = "replay" => calls[k - 1].ok

----------------------------------------------------------------------------
(* docx_builder.py: DocxBuilder.
   Tags and attribute names are the constants of xmltags; only their being
   distinct matters here. Attributes map names to strings: a set of
   <<name, value>> pairs. *)

PARAGRAPH == "p"
PAGEBREAK == "pagebreak"
BULLET_LIST == "ul"
NUMBERED_LIST == "ol"
LIST_ITEM == "li"
SECTION == "section"
SECTION_LEVEL == "level"
SECTION_IS_APPENDIX == "is-appendix"
HEADING == "h"
TABLE == "table"
TABLE_COLUMNS == "columns"
TABLE_HEADER_ROW == "tr-header"
TABLE_ROW == "tr"
TABLE_CELL == "td"
TABLE_CELL_ALIGNMENT == "align"
ANCHOR == "a"
ANCHOR_LINK == "href"
HEADER == "header"
TITLE == "title"
TABLE_OF_CONTENTS == "toc"
TABLE_OF_CONTENTS_HEADING == "toc-heading"
MEASURE == "measure"
INSTRUCTION == "instruction"
BOLD == "b"
ITALIC == "i"
STRIKETHROUGH == "strike"
IMAGE == "img"

FORMAT_TAGS == {INSTRUCTION, BOLD, ITALIC, STRIKETHROUGH}

TEXT_TAGS ==
    {PARAGRAPH, LIST_ITEM, MEASURE, HEADING, TABLE_CELL, HEADER, TITLE} \cup FORMAT_TAGS

\* key in attributes
HasAttr(attributes, key) == \E a \in attributes : a[1] = key

\* attributes[key], for a key that is there
Attr(attributes, key) == (CHOOSE a \in attributes : a[1] = key)[2]

\* attributes.get(key)
AttrGet(attributes, key) ==
    IF HasAttr(attributes, key) THEN Attr(attributes, key) ELSE None

\* int(s) for the numerals used as attribute values
IntOf(numeral) ==
    CASE numeral = "0" -> 0 [] numeral = "1" -> 1 [] numeral = "2" -> 2 [] numeral = "3" -> 3

\* the document of a builder: the body's elements in order, the paragraph of
\* the first section's header, and the w:num elements of the numbering part.
\* A paragraph without w:ilvl has ilvl = -1, one without w:numId has numId = 0.
DocxParagraph(style) ==
    [kind |-> "paragraph", style |-> style, runs |-> <<>>, ilvl |-> -1,
     numId |-> 0, alignment |-> None]

DocxCell == [runs |-> <<>>, alignment |-> None, tcW |-> None]

\* a reference to a paragraph of the document: of the body, of a table cell, or
\* the header's
InBody(i) == [at |-> "body", elem |-> i, row |-> 0, col |-> 0]
InCell(t, r, c) == [at |-> "cell", elem |-> t, row |-> r, col |-> c]
InHeader == [at |-> "header", elem |-> 0, row |-> 0, col |-> 0]
NoRef == [at |-> "None", elem |-> 0, row |-> 0, col |-> 0]

\* doc.add_paragraph(style=...), doc.add_page_break(), doc.add_picture(path), ...
AddElement(doc, elem) == [doc EXCEPT !.body = Append(@, elem)]

\* the paragraph that ref refers to
ParagraphAt(doc, ref) ==
    CASE ref.at = "body" -> doc.body[ref.elem]
      [] ref.at = "cell" -> doc.body[ref.elem].rows[ref.row][ref.col]
      [] ref.at = "header" -> doc.header

\* the document with the paragraph that ref refers to changed to par
SetParagraph(doc, ref, par) ==
    CASE ref.at = "body" -> [doc EXCEPT !.body[ref.elem] = par]
      [] ref.at = "cell" -> [doc EXCEPT !.body[ref.elem].rows[ref.row][ref.col] = par]
      [] ref.at = "header" -> [doc EXCEPT !.header = par]

\* paragraph.add_run(...): the document with run added to the paragraph at ref
AddRun(doc, ref, run) ==
    SetParagraph(doc, ref, [ParagraphAt(doc, ref) EXCEPT !.runs = Append(@, run)])

\* the exception e ends the call
Raise(b, e) == [b EXCEPT !.error = e]

\* the reference document: no body, an empty header paragraph, no w:num
ReferenceDocument == [body |-> <<>>, header |-> DocxParagraph(None), nums |-> <<>>]

\* a document left by an earlier conversion
OldDocument ==
    [body |-> <<DocxParagraph("Title")>>, header |-> DocxParagraph(None), nums |-> <<>>]

docx_reference_filename == "reference.docx"
OutputFilenames == {"a.docx", "b.docx"}

File(doc) == [exists |-> TRUE, doc |-> doc]
NoFile == [exists |-> FALSE, doc |-> ReferenceDocument]

\* __init__ without `filename.unlink(missing_ok=True); shutil.copy(...)`
ResetOutputFile_skipped(fs, filename) == fs

\* __init__: filename.unlink(missing_ok=True); shutil.copy(docx_reference_filename, filename)
ResetOutputFile(fs, filename) == [fs EXCEPT ![filename] = fs[docx_reference_filename]]

\* DocxBuilder(filename, docx_reference_filename): [files, builder]
DocxBuilder(fs, filename) ==
    LET fs1 == ResetOutputFile(fs, filename)
    IN  [files |-> fs1,
         builder |->
            [filename |-> filename,
             doc |-> fs1[filename].doc,
             paragraph |-> NoRef,
             current_list_style |-> <<>>,
             previous_list_item |-> <<>>,  \* positions in the body, 0 for None
             table |-> 0,                  \* position in the body, 0 for None
             row |-> InCell(0, 0, 0),      \* table and row, 0 for None
             column_index |-> 0,
             link |-> None,
             section_style |-> None,
             formatting |-> {},
             style |-> None,
             \* Document(filename) raises when there is no such file
             error |-> IF fs1[filename].exists THEN None ELSE "PackageNotFoundError"]]

\* f"Kop {level} Bijlage" if is_appendix else f"heading {level}"
SectionStyle(level, is_appendix) ==
    IF is_appendix # None
    THEN CASE level = "1" -> "Kop 1 Bijlage" [] level = "2" -> "Kop 2 Bijlage"
           [] level = "3" -> "Kop 3 Bijlage"
    ELSE CASE level = "1" -> "heading 1" [] level = "2" -> "heading 2"
           [] level = "3" -> "heading 3"

WD_ALIGNMENTS == {"left", "right", "center"}

\* self.paragraph = self.doc.add_paragraph(style=style)
NewParagraph(b, style) ==
    [b EXCEPT !.doc = AddElement(@, DocxParagraph(style)),
              !.paragraph = InBody(Len(b.doc.body) + 1)]

\* StartListItem without `self.previous_list_item[-1] = self.paragraph`
StartListItem_forgets(b) ==
    IF b.current_list_style = <<>> THEN Raise(b, "IndexError")
    ELSE
    LET depth == Len(b.current_list_style)
        list_style == b.current_list_style[depth]
        fresh == Len(b.doc.nums) + 1
        item == [DocxParagraph(list_style) EXCEPT
                    !.ilvl = depth - 1,
                    !.numId = IF list_style = "Lijstnummering1" THEN fresh ELSE 0]
        nums == IF list_style = "Lijstnummering1"
                THEN Append(b.doc.nums, [numId |-> fresh, abstractNumId |-> "0",
                                         ilvl |-> depth - 1, startOverride |-> 1])
                ELSE b.doc.nums
    IN  [b EXCEPT !.doc = [AddElement(@, item) EXCEPT !.nums = nums],
                  !.paragraph = InBody(Len(b.doc.body) + 1)]

\* start_element, tag == LIST_ITEM
StartListItem(b) ==
    IF b.current_list_style = <<>> THEN Raise(b, "IndexError")
    ELSE
    LET depth == Len(b.current_list_style)
        list_style == b.current_list_style[depth]
        level == depth - 1
        index == Len(b.doc.body) + 1
        previous_item == b.previous_list_item[depth]
        fresh == Len(b.doc.nums) + 1
        num == IF previous_item = 0 THEN fresh ELSE b.doc.body[previous_item].numId
        item == [DocxParagraph(list_style) EXCEPT
                    !.ilvl = level,
                    !.numId = IF list_style = "Lijstnummering1" THEN num ELSE 0]
        nums == IF list_style = "Lijstnummering1" /\ previous_item = 0
                THEN Append(b.doc.nums, [numId |-> fresh, abstractNumId |-> "0",
                                         ilvl |-> level, startOverride |-> 1])
                ELSE b.doc.nums
    IN  [b EXCEPT !.doc = [AddElement(@, item) EXCEPT !.nums = nums],
                  !.paragraph = InBody(index),
                  !.previous_list_item[depth] = index]

\* start_element, tag == TABLE_CELL
StartTableCell(b, attributes) ==
    IF b.row.elem = 0 THEN Raise(b, "AttributeError")
    ELSE IF b.column_index + 1 > b.doc.body[b.row.elem].cols THEN Raise(b, "IndexError")
    ELSE
    LET ref == InCell(b.row.elem, b.row.row, b.column_index + 1)
        alignment_attr == AttrGet(attributes, TABLE_CELL_ALIGNMENT)
        b1 == [b EXCEPT !.doc = SetParagraph(@, ref, [ParagraphAt(@, ref) EXCEPT !.tcW = "auto"]),
                        !.paragraph = ref]
    IN  IF alignment_attr \in {None, ""}
        THEN [b1 EXCEPT !.column_index = @ + 1]
        ELSE IF alignment_attr \notin WD_ALIGNMENTS THEN Raise(b1, "KeyError")
        ELSE [b1 EXCEPT !.doc = SetParagraph(@, ref, [ParagraphAt(@, ref) EXCEPT
                                                         !.alignment = alignment_attr]),
                        !.column_index = @ + 1]

DocxTable(cols) == [kind |-> "table", style |-> "Tabelraster1", cols |-> cols,
                    width |-> "100%", rows |-> <<>>]

\* start_element(tag, attributes)
start_element(b, tag, attributes) ==
    IF tag = PARAGRAPH THEN NewParagraph(b, b.style)
    ELSE IF tag = PAGEBREAK THEN [b EXCEPT !.doc = AddElement(@, [kind |-> "pagebreak"])]
    ELSE IF tag = BULLET_LIST
    THEN [b EXCEPT !.current_list_style = Append(@, "Lijst opsom.teken1"),
                   !.previous_list_item = Append(@, 0)]
    ELSE IF tag = NUMBERED_LIST
    THEN [b EXCEPT !.current_list_style = Append(@, "Lijstnummering1"),
                   !.previous_list_item = Append(@, 0)]
    ELSE IF tag = LIST_ITEM THEN StartListItem(b)
    ELSE IF tag = SECTION
    THEN IF ~HasAttr(attributes, SECTION_LEVEL) THEN Raise(b, "KeyError")
         ELSE [b EXCEPT !.section_style =
                   SectionStyle(Attr(attributes, SECTION_LEVEL),
                                AttrGet(attributes, SECTION_IS_APPENDIX))]
    ELSE IF tag = HEADING THEN NewParagraph(b, b.section_style)
    ELSE IF tag = TABLE
    THEN IF ~HasAttr(attributes, TABLE_COLUMNS) THEN Raise(b, "KeyError")
         ELSE [b EXCEPT !.doc = AddElement(@, DocxTable(IntOf(Attr(attributes, TABLE_COLUMNS)))),
                        !.table = Len(b.doc.body) + 1]
    ELSE IF tag \in {TABLE_HEADER_ROW, TABLE_ROW}
    THEN IF b.table = 0 THEN Raise(b, "AttributeError")
         ELSE [b EXCEPT !.doc.body[b.table].rows =
                             Append(@, [c \in 1..b.doc.body[b.table].cols |-> DocxCell]),
                        !.row = InCell(b.table, Len(b.doc.body[b.table].rows) + 1, 0),
                        !.column_index = 0]
    ELSE IF tag = TABLE_CELL THEN StartTableCell(b, attributes)
    ELSE IF tag = ANCHOR
    THEN IF ~HasAttr(attributes, ANCHOR_LINK) THEN Raise(b, "KeyError")
         ELSE [b EXCEPT !.link = Attr(attributes, ANCHOR_LINK)]
    ELSE IF tag = HEADER
    THEN [b EXCEPT !.paragraph = InHeader,
                   !.doc = SetParagraph(@, InHeader, [@.header EXCEPT !.alignment = "right"])]
    ELSE IF tag = TITLE THEN NewParagraph(b, "Title")
    ELSE IF tag = TABLE_OF_CONTENTS
    THEN IF ~HasAttr(attributes, TABLE_OF_CONTENTS_HEADING) THEN Raise(b, "KeyError")
         ELSE LET heading == [DocxParagraph("TOC Heading") EXCEPT
                                 !.runs = <<[kind |-> "run",
                                             text |-> Attr(attributes, TABLE_OF_CONTENTS_HEADING),
                                             link |-> None, formats |-> {}]>>]
                  field == [DocxParagraph(None) EXCEPT
                               !.runs = <<[kind |-> "field", text |-> "TOC",
                                           link |-> None, formats |-> {}]>>]
              IN  [b EXCEPT !.doc = AddElement(AddElement(@, heading), field)]
    ELSE IF tag = MEASURE THEN [b EXCEPT !.style = "Maatregel"]
    ELSE IF tag \in FORMAT_TAGS THEN [b EXCEPT !.formatting = @ \cup {tag}]
    ELSE b

\* the images the events refer to that can be read
ReadableImages == {"logo.png"}

\* text(tag, text); a run records as formats which of bold, highlight
\* (instruction), italic and strike were set on its font
text(b, tag, txt) ==
    IF tag \in TEXT_TAGS
    THEN IF b.paragraph = NoRef THEN Raise(b, "AttributeError")
         ELSE LET run == [kind |-> "run", text |-> txt, link |-> None,
                          formats |-> b.formatting]
              IN  [b EXCEPT !.doc = AddRun(@, b.paragraph, run)]
    ELSE IF tag = ANCHOR
    THEN IF b.paragraph = NoRef THEN Raise(b, "AttributeError")
         ELSE LET hyperlink == [kind |-> "hyperlink", text |-> txt, link |-> b.link,
                                formats |-> {}]
              IN  [b EXCEPT !.doc = AddRun(@, b.paragraph, hyperlink)]
    ELSE IF tag = IMAGE
    THEN IF txt \notin ReadableImages THEN Raise(b, "FileNotFoundError")
         ELSE [b EXCEPT !.doc = AddElement(@, [kind |-> "picture", path |-> txt])]
    ELSE b

\* end_element(tag, attributes)
end_element(b, tag, attributes) ==
    IF tag \in {BULLET_LIST, NUMBERED_LIST}
    THEN IF b.current_list_style = <<>> THEN Raise(b, "IndexError")
         ELSE [b EXCEPT !.current_list_style = SubSeq(@, 1, Len(@) - 1),
                        !.previous_list_item = SubSeq(@, 1, Len(@) - 1)]
    ELSE IF tag \in FORMAT_TAGS
    THEN IF tag \notin b.formatting THEN Raise(b, "KeyError")
         ELSE [b EXCEPT !.formatting = @ \ {tag}]
    ELSE IF tag = MEASURE THEN [b EXCEPT !.style = None]
    ELSE b

\* tail(tag, tail, parent)
tail(b, tag, txt, parent) == text(b, parent, txt)

\* end_document(): self.doc.save(self.filename), the file system after it
end_document(fs, b) == [fs EXCEPT ![b.filename] = File(b.doc)]

----------------------------------------------------------------------------
(* Two DocxBuilder instances receive the events of one document model, each at
   its own pace *)

MaxEvents == 4   \* number of events of the document model

StartEvent(tag, attributes) ==
    [kind |-> "start", tag |-> tag, attributes |-> attributes, text |-> "", parent |-> ""]
TextEvent(tag, txt) ==
    [kind |-> "text", tag |-> tag, attributes |-> {}, text |-> txt, parent |-> ""]
EndEvent(tag) ==
    [kind |-> "end", tag |-> tag, attributes |-> {}, text |-> "", parent |-> ""]
TailEvent(tag, txt, parent) ==
    [kind |-> "tail", tag |-> tag, attributes |-> {}, text |-> txt, parent |-> parent]
EndDocumentEvent ==
    [kind |-> "end_document", tag |-> "", attributes |-> {}, text |-> "", parent |-> ""]

\* the events a document model is made of
ModelEvents ==
    {StartEvent(PARAGRAPH, {}), TextEvent(PARAGRAPH, "t"),
     StartEvent(BOLD, {}), EndEvent(BOLD), TailEvent(BOLD, "u", PARAGRAPH),
     StartEvent(NUMBERED_LIST, {}), StartEvent(BULLET_LIST, {}),
     StartEvent(LIST_ITEM, {}), EndEvent(NUMBERED_LIST),
     StartEvent(TABLE, {<<TABLE_COLUMNS, "1">>}), StartEvent(TABLE_ROW, {}),
     StartEvent(TABLE_CELL, {<<TABLE_CELL_ALIGNMENT, "center">>}),
     StartEvent(MEASURE, {}), EndEvent(MEASURE),
     StartEvent(SECTION, {<<SECTION_LEVEL, "1">>, <<SECTION_IS_APPENDIX, "true">>}),
     StartEvent(HEADING, {}), StartEvent(HEADER, {}),
     TextEvent(IMAGE, "missing.png"),
     EndDocumentEvent}

\* the file system before the builders are made: the reference document, and
\* for each output file nothing or the output of an earlier conversion
FilesBefore ==
    {fs \in [OutputFilenames \cup {docx_reference_filename} -> {NoFile, File(ReferenceDocument), File(OldDocument)}] :
        /\ fs[docx_reference_filename] = File(ReferenceDocument)
        /\ \A f \in OutputFilenames : fs[f] \in {NoFile, File(OldDocument)}}

RECURSIVE MakeBuilders(_, _)
\* the builders for the filenames in names made one after the other: [files, builders]
MakeBuilders(fs, names) ==
    IF names = {} THEN [files |-> fs, builders |-> <<>>]
    ELSE LET f == CHOOSE f \in names : TRUE
             made == DocxBuilder(fs, f)
             rest == MakeBuilders(made.files, names \ {f})
         IN  [files |-> rest.files,
              builders |-> [g \in {f} \cup DOMAIN rest.builders |->
                               IF g = f THEN made.builder ELSE rest.builders[g]]]

InitBuilder ==
    /\ FpIdle
    /\ DocIdle
    /\ ConvertIdle
    /\ \E before \in FilesBefore : \E made \in {MakeBuilders(before, OutputFilenames)} :
           /\ files = made.files
           /\ builders = made.builders
    /\ events = <<>>
    /\ received = [f \in OutputFilenames |-> 0]

\* the document model has all its events
Complete == events # <<>> /\ events[Len(events)].kind = "end_document"

\* the events builder f can receive next: the next one of the document model,
\* or any event when the model goes on from here
Pending(f) ==
    IF builders[f].error # None THEN {}
    ELSE IF received[f] < Len(events) THEN {events[received[f] + 1]}
    ELSE IF Len(events) < MaxEvents /\ ~Complete THEN ModelEvents
    ELSE {}

\* builder f has received event e and is left as b
Received(f, e, b) ==
    /\ builders' = [builders EXCEPT ![f] = b]
    /\ events' = IF received[f] < Len(events) THEN events ELSE Append(events, e)
    /\ received' = [received EXCEPT ![f] = @ + 1]
    /\ UNCHANGED <<fp_vars, doc_vars, conv_vars>>

StartElement ==
    \E f \in OutputFilenames : \E e \in Pending(f) :
        /\ e.kind = "start"
        /\ Received(f, e, start_element(builders[f], e.tag, e.attributes))
        /\ UNCHANGED files

Text ==
    \E f \in OutputFilenames : \E e \in Pending(f) :
        /\ e.kind = "text"
        /\ Received(f, e, text(builders[f], e.tag, e.text))
        /\ UNCHANGED files

EndElement ==
    \E f \in OutputFilenames : \E e \in Pending(f) :
        /\ e.kind = "end"
        /\ Received(f, e, end_element(builders[f], e.tag, e.attributes))
        /\ UNCHANGED files

TailText ==
    \E f \in OutputFilenames : \E e \in Pending(f) :
        /\ e.kind = "tail"
        /\ Received(f, e, tail(builders[f], e.tag, e.text, e.parent))
        /\ UNCHANGED files

EndDocument ==
    \E f \in OutputFilenames : \E e \in Pending(f) :
        /\ e.kind = "end_document"
        /\ Received(f, e, builders[f])
        /\ files' = end_document(files, builders[f])

NextBuilder == StartElement \/ Text \/ EndElement \/ TailText \/ EndDocument

SpecBuilder == InitBuilder /\ [][NextBuilder]_vars

----------------------------------------------------------------------------
(* Properties of DocxBuilder instances (checked under SpecBuilder) *)

\* the state of a builder apart from the name of its output file
PrivateState(b) == [b EXCEPT !.filename = ""]

\* C15: two builders that have received the same events of the document model
\* are in the same state (current paragraph, list stacks, table, row, column
\* index, formatting, styles, document, exception), whatever the other builder
\* has received in between and whatever their output files held before; and
\* once both have received the whole model their output files are the same.
C15_ReplayDeterministic ==
    \A f, g \in OutputFilenames :
        received[f] = received[g] =>
            /\ PrivateState(builders[f]) = PrivateState(builders[g])
            /\ (Complete /\ received[f] = Len(events)) => files[f] = files[g]

\* C15 witness: both builders have received a whole model that made a numbered
\* list item and their output files hold the same document with that item
C15_Witness ==
    /\ Complete
    /\ \A f \in OutputFilenames :
          /\ received[f] = Len(events) /\ builders[f].error = None
          /\ files[f].exists
          /\ \E i \in 1..Len(files[f].doc.body) :
                files[f].doc.body[i].kind = "paragraph" /\ files[f].doc.body[i].numId # 0
    /\ \A f, g \in OutputFilenames : files[f] = files[g]

----------------------------------------------------------------------------
(* Lines inside a directive wrapper, with and without a space after "@{" *)

\* lines of an input file whose blocks open a directive wrapper
WrappedLines ==
    {
     <<"@", "{", "*", " ", "a">>,   \* "@{* a"
     <<"@", "{", " ", "*", " ", "a">>,   \* "@{ * a"
     <<"@", "{", "1", ".", " ", "d">>,   \* "@{1. d"
     <<"@", "{", " ", "1", ".", " ", "d">>,   \* "@{ 1. d"
     <<"@", "{", "#", " ", "T">>,   \* "@{# T"
     <<"@", "{", "x">>,   \* "@{x"
     <<"@", "{", " ", "x">>,   \* "@{ x"
     <<"@", "{", "|", "A", "|">>,   \* "@{|A|"
     <<"*", " ", "a">>    \* "* a"
    }

\* the same program on that input file
NextWrapped ==
    \/ HeaderRowLine(WrappedLines)
    \/ TableRowLine(WrappedLines)
    \/ HeadingLine(WrappedLines)
    \/ BulletLine(WrappedLines)
    \/ NumberedLine(WrappedLines)
    \/ ParagraphLine(WrappedLines)

SpecWrapped == Init /\ [][NextWrapped]_vars

\* the content X of a line made of "@{" and X, with or without a space between
WrappedContent(raw) == strip(Drop(strip(raw), Len(MEASURE_START)))

\* the text of the block that the line X makes on its own
OwnText(X) ==
    CASE FirstRule(X) = 2 -> strip(Drop(X, LeadingHashes(X)))
      [] FirstRule(X) = 3 -> strip(Drop(X, 2))
      [] FirstRule(X) = 4 -> strip(Drop(X, Len(NumberToken(X)) + 2))
      [] FirstRule(X) = 5 -> X

\* what consumed line n added to the document is the block that the line X
\* makes on its own, but for the directive style
BuiltLike(n, X) ==
    IF FirstRule(X) = 1 THEN ~HasElem(n) \/ ElemOf(n).kind = "table"
    ELSE /\ HasElem(n) /\ ElemOf(n).kind = "paragraph"
         /\ ParagraphText(ElemOf(n).runs) = OwnText(X)
         /\ FirstRule(X) \in {3, 4} <=> ElemOf(n).numId # 0
         /\ FirstRule(X) \in {3, 4} => ElemOf(n).ilvl = RuleLevel(X)
         /\ FirstRule(X) = 2 =>
               \/ \E k \in DOMAIN HeadingStyle : ElemOf(n).style = HeadingStyle[k]
               \/ ElemOf(n).style \in AppendixStyles

\* C21: a line made of "@{" and a content X, with or without a space between
\* them, adds the block that X adds on its own: same block type, level and text.
C21_WrapperIndependentOfBlock ==
    \A n \in 1..Len(consumed) :
        (BeginsDirective(consumed[n]) /\ Handled(n)) =>
            BuiltLike(n, WrappedContent(consumed[n]))

----------------------------------------------------------------------------
(* Table lines with empty and blank cells *)

\* table lines of an input file, some of their cells empty or blank
EmptyCellLines ==
    {
     <<"|", "a", "|", "b", "|">>,   \* "|a|b|"
     <<"|", "|", "a", "|">>,   \* "||a|"
     <<"|", "a", "|", "|">>,   \* "|a||"
     <<"|", "a", "|", " ", "|">>,   \* "|a| |"
     <<"|", "a", "|", "|", "b", "|">>,   \* "|a||b|"
     <<"|", " ", "a", " ", "|", "b", "|">>    \* "| a |b|"
    }

\* the same program on that input file
NextCells ==
    \/ HeaderRowLine(EmptyCellLines)
    \/ TableRowLine(EmptyCellLines)

SpecCells == Init /\ [][NextCells]_vars

\* the cells c1..cn written in a line |c1|c2|...|cn|, surrounding whitespace removed
PipeCells(l) ==
    LET inner == SubSeq(strip(l), 2, Len(strip(l)) - 1)
        parts == Split(inner, "|")
    IN  [i \in 1..Len(parts) |-> strip(parts[i])]

\* C22: the header row of a table holds one cell for each cell written in its
\* line, the i-th with the i-th written text, empty and blank cells included.
C22_CellsAsWritten ==
    \A n \in 1..Len(consumed) :
        (LineClass(consumed[n]) = "table" /\ HeaderLineOf(n) = n /\ HasElem(n)) =>
            LET header == ElemOf(n).rows[1].cells
                written == PipeCells(consumed[n])
            IN  /\ Len(header) = Len(written)
                /\ \A i \in 1..Len(written) :
                       i <= Len(header) => ParagraphText(header[i].runs) = written[i]

----------------------------------------------------------------------------
(* The numbering definition chosen for the first item of a list run *)

\* numbering parts of reference documents: definitions with one level and with
\* several, with and without a paragraph style, more than one match in a tier
NumberingParts ==
    { { [id |-> 3, lvls |-> {Lvl(0, "Lijstopsomteken1", "bullet")}],
        [id |-> 2, lvls |-> {Lvl(0, "Lijstopsomteken1", "bullet")}],
        [id |-> 1, lvls |-> {Lvl(0, "Lijstopsomteken1", "bullet"), Lvl(1, None, "bullet")}],
        [id |-> 0, lvls |-> {Lvl(0, None, "bullet")}] },
      { [id |-> 6, lvls |-> {Lvl(0, "Lijstnummering1", "decimal"),
                             Lvl(1, "Lijstnummering1", "decimal")}],
        [id |-> 5, lvls |-> {Lvl(0, "Lijstnummering1", "decimal"),
                             Lvl(1, "Lijstnummering1", "lowerLetter")}],
        [id |-> 4, lvls |-> {Lvl(0, None, "decimal")}] },
      { [id |-> 9, lvls |-> {Lvl(0, None, "bullet"), Lvl(1, None, "bullet"),
                             Lvl(2, None, "bullet")}],
        [id |-> 8, lvls |-> {Lvl(0, None, "bullet")}],
        [id |-> 7, lvls |-> {Lvl(0, None, "decimal")}] },
      { [id |-> 2, lvls |-> {Lvl(0, None, "decimal"), Lvl(1, None, "decimal"),
                             Lvl(2, None, "decimal")}],
        [id |-> 3, lvls |-> {Lvl(0, None, "bullet"), Lvl(1, None, "bullet"),
                             Lvl(2, None, "bullet")}],
        [id |-> 4, lvls |-> {Lvl(0, None, "decimal"), Lvl(1, None, "decimal")}] } }

\* list items of an input file at several levels, in and out of a directive
ListLines ==
    {
     <<"*", " ", "a">>,   \* "* a"
     <<"+", " ", "b">>,   \* "+ b"
     <<"1", ".", " ", "d">>,   \* "1. d"
     <<"a", ".", " ", "e">>,   \* "a. e"
     <<"x">>,   \* "x"
     <<"@", "{", "*", " ", "m">>    \* "@{* m"
    }

InitNumbering ==
    /\ FpIdle
    /\ ExtIdle
    /\ in_list = FALSE
    /\ in_maatregel = FALSE
    /\ document = FrontMatter(<<"D", "o", "c">>)
    /\ previous = 0
    /\ numbering = <<>>
    /\ abstract_nums \in NumberingParts
    /\ error = None
    /\ consumed = <<>>

NextNumbering ==
    \/ BulletLine(ListLines)
    \/ NumberedLine(ListLines)
    \/ ParagraphLine(ListLines)

SpecNumbering == InitNumbering /\ [][NextNumbering]_vars

\* consumed line n added the first item of a list run
FirstItemOfRun(n) ==
    /\ HasElem(n) /\ ElemOf(n).kind = "paragraph" /\ ElemOf(n).numId # 0
    /\ \A m \in 1..(n - 1) :
           HasElem(m) /\ ElemOf(m).kind = "paragraph" => ElemOf(m).numId # ElemOf(n).numId

\* the definition that the numbering identity of item n is an instance of
ChosenDefinition(n) ==
    LET k == CHOOSE k \in 1..Len(numbering) : numbering[k].numId = ElemOf(n).numId
    IN  numbering[k].abstractNumId

\* the tiers of the precedence for item n: the ids of the definitions that match
Tier(n, t) ==
    LET want == IF FirstRule(StrippedLine(n)) = 4 THEN "decimal" ELSE "bullet"
        sid == style_id(ElemOf(n).style)
        single(a) == Cardinality(a.lvls) = 1
        has(a, lv, field, v) == \E l \in a.lvls : l.ilvl = lv /\ l[field] = v
    IN  CASE t = 1 -> {a.id : a \in {a \in abstract_nums :
                                        single(a) /\ has(a, 0, "pStyle", sid)}}
          [] t = 2 -> {a.id : a \in {a \in abstract_nums :
                                        has(a, ElemOf(n).ilvl, "pStyle", sid)}}
          [] t = 3 -> {a.id : a \in {a \in abstract_nums :
                                        single(a) /\ has(a, 0, "numFmt", want)}}
          [] t = 4 -> {a.id : a \in {a \in abstract_nums :
                                        has(a, ElemOf(n).ilvl, "numFmt", want)}}

\* item n's definition is the smallest id of tier t, the first tier with a match
ChosenFromTier(n, t) ==
    /\ Tier(n, t) # {}
    /\ \A q \in 1..(t - 1) : Tier(n, q) = {}
    /\ ChosenDefinition(n) \in Tier(n, t)
    /\ \A x \in Tier(n, t) : ChosenDefinition(n) <= x

\* C23: the first item of a list run gets the definition with the smallest id of
\* the first tier that has a match (style single-level, style at the level, type
\* single-level, type at the level), and definition 0 when no tier has one.
C23_DefinitionByPrecedence ==
    \A n \in 1..Len(consumed) :
        FirstItemOfRun(n) =>
            IF \E t \in 1..4 : Tier(n, t) # {}
            THEN \E t \in 1..4 : ChosenFromTier(n, t)
            ELSE ChosenDefinition(n) = 0

\* a first item took the smaller of two style matches at its level although
\* a single-level definition of its type has a smaller id still
C23_Witness ==
    \E n \in 1..Len(consumed) :
        /\ FirstItemOfRun(n)
        /\ ChosenFromTier(n, 2)
        /\ Cardinality(Tier(n, 2)) >= 2
        /\ \E x \in Tier(n, 3) : x < ChosenDefinition(n)

----------------------------------------------------------------------------
(* The runs of format_paragraph cover the line (checked under SpecPara) *)

\* the characters of l that stay when the markers the scan honors are removed,
\* braces kept; processed is what the scan has passed before l
RECURSIVE WithoutHonoredMarkers(_, _)
WithoutHonoredMarkers(l, processed) ==
    IF l = <<>> THEN <<>>
    ELSE LET k == BreakAt(l, processed)
             marker == IF Branch(l, processed) = "start" THEN md_format_start(k)
                       ELSE md_format_end(k)
         IN  IF k = 0
             THEN <<l[1]>> \o WithoutHonoredMarkers(Tail(l), Append(processed, l[1]))
             ELSE (IF marker \in {MD_INSTRUCTION_START, MD_INSTRUCTION_END}
                   THEN marker ELSE <<>>)
                  \o WithoutHonoredMarkers(Drop(l, Len(marker)), processed \o marker)

\* the characters of l that can never be removed as a marker, in order
NonMarkerChars(l) == SelectSeq(l, LAMBDA ch : ch \notin {"*", "_", "~"})

\* C24: once format_paragraph has returned, the texts of its runs, concatenated
\* in order, are the line without the honored marker characters, braces kept:
\* no other character is dropped, duplicated or reordered.
C24_RunsCoverLine ==
    pc = "done" =>
        /\ ParagraphText(runs) = WithoutHonoredMarkers(arg_line, <<>>)
        /\ NonMarkerChars(ParagraphText(runs)) = NonMarkerChars(arg_line)

\* a returned call on a line with an honored pair, kept braces and a marker
\* character that was not honored, text left in the buffer at the end
C24_Witness ==
    /\ pc = "done"
    /\ \E j \in 1..Len(runs) : runs[j].italic = "True" \/ runs[j].style = STYLE_INSTRUCTION
    /\ Len(ParagraphText(runs)) < Len(arg_line)
    /\ \E i \in 1..Len(ParagraphText(runs)) : ParagraphText(runs)[i] \in {"*", "_", "~"}
    /\ buffer # <<>>

----------------------------------------------------------------------------
(* Termination of format_paragraph *)

MaxScanLen == 4

\* the lines format_paragraph is called with: text, a marker character that is
\* the italic marker alone and the bold marker doubled, and the two braces
ScanAlphabet == {"a", "*", "{", "}"}

ScanLines == UNION {[1..n -> ScanAlphabet] : n \in 0..MaxScanLen}

\* before the call
InitScan ==
    /\ arg_line = <<>>
    /\ line = <<>>
    /\ buffer = <<>>
    /\ processed_line = <<>>
    /\ runs = <<>>
    /\ pc = "call"
    /\ DocIdle
    /\ ExtIdle

\* format_paragraph(paragraph, line) is entered
Call ==
    /\ pc = "call"
    /\ \E l \in ScanLines : arg_line' = l /\ line' = l
    /\ pc' = "scan"
    /\ UNCHANGED <<buffer, processed_line, runs>> /\ UNCHANGED <<doc_vars, ext_vars>>

NextScan == Call \/ StartMarker \/ EndMarker \/ LiteralChar \/ Return

\* a call of format_paragraph runs on: the loop takes its next iteration and the
\* function returns when the loop has ended
SpecScan == InitScan /\ [][NextScan]_vars /\ WF_vars(NextScan)

\* C27: format_paragraph terminates: each iteration of the scan loop removes at
\* least one character from the remaining line, what was removed and what
\* remains are together never longer than the line, and the call returns.
C27_ScanTerminates ==
    /\ [][(pc = "scan" /\ ~(pc' = "done")) => Len(line') < Len(line)]_vars
    /\ [](Len(processed_line) + Len(line) = Len(arg_line))
    /\ <>(pc = "done")

\* a call that returned after iterations of all three kinds on a line of full length
C27_Witness ==
    /\ pc = "done" /\ line = <<>>
    /\ Len(arg_line) >= MaxScanLen
    /\ Len(runs) >= 3
    /\ Len(ParagraphText(runs)) > 0
    /\ Len(ParagraphText(runs)) < Len(arg_line)

----------------------------------------------------------------------------
(* The open formats of a DocxBuilder (checked under SpecBuilder) *)

\* the events builder f has received
EventsOf(f) == SubSeq(events, 1, received[f])

\* how many elements of format tag t are open after the events evs
OpenCount(evs, t) ==
    Cardinality({i \in 1..Len(evs) : evs[i].kind = "start" /\ evs[i].tag = t})
    - Cardinality({i \in 1..Len(evs) : evs[i].kind = "end" /\ evs[i].tag = t})

\* every end event of a format tag closes an element of that tag that is open
FormatsWellNested(evs) ==
    \A n \in 1..Len(evs) : \A t \in FORMAT_TAGS : OpenCount(SubSeq(evs, 1, n), t) >= 0

\* C25: after a well-nested sequence of start and end events, the formats a text
\* event is rendered with are the format tags with an open element, and no end
\* event of a format tag has failed.
C25_FormatsAreOpenElements ==
    \A f \in OutputFilenames :
        FormatsWellNested(EventsOf(f)) =>
            /\ builders[f].error # "KeyError"
            /\ builders[f].error = None =>
                  builders[f].formatting = {t \in FORMAT_TAGS : OpenCount(EventsOf(f), t) > 0}

----------------------------------------------------------------------------
(* One DocxBuilder receives the events of nested lists *)

MaxListEvents == 9   \* number of events of the lists

ListTags == {NUMBERED_LIST, BULLET_LIST}

\* the start events of the list elements that are open after the first n
\* events, outermost first
RECURSIVE OpenLists(_)
OpenLists(n) ==
    IF n = 0 THEN <<>>
    ELSE LET open == OpenLists(n - 1)
             e == events[n]
         IN  IF e.tag \in ListTags /\ e.kind = "start" THEN Append(open, n)
             ELSE IF e.tag \in ListTags /\ e.kind = "end"
                  THEN SubSeq(open, 1, Len(open) - 1)
             ELSE open

ListBuilder == "a.docx"

\* the builder has received event e and is left as b
Delivered(e, b) ==
    /\ Len(events) < MaxListEvents
    /\ builders[ListBuilder].error = None
    /\ builders' = [builders EXCEPT ![ListBuilder] = b]
    /\ events' = Append(events, e)
    /\ received' = [received EXCEPT ![ListBuilder] = @ + 1]
    /\ UNCHANGED <<fp_vars, doc_vars, conv_vars, files>>

\* a list element opens, at the top level or inside an open list
ListStart ==
    \E tag \in ListTags :
        Delivered(StartEvent(tag, {}), start_element(builders[ListBuilder], tag, {}))

\* an item of the innermost open list
ListItem ==
    /\ OpenLists(Len(events)) # <<>>
    /\ Delivered(StartEvent(LIST_ITEM, {}), start_element(builders[ListBuilder], LIST_ITEM, {}))

\* the innermost open list element ends
ListEnd ==
    /\ OpenLists(Len(events)) # <<>>
    /\ \E open \in {OpenLists(Len(events))} : \E tag \in {events[open[Len(open)]].tag} :
           Delivered(EndEvent(tag), end_element(builders[ListBuilder], tag, {}))

NextLists == ListStart \/ ListItem \/ ListEnd

SpecLists == InitBuilder /\ [][NextLists]_vars

\* the events that are list items
ItemEvents == {n \in 1..Len(events) : events[n].tag = LIST_ITEM}

\* the list element that item event n belongs to (the event that opened it)
ListOf(n) == OpenLists(n)[Len(OpenLists(n))]

\* the paragraph the builder made for item event n
ItemOf(n) ==
    builders[ListBuilder].doc.body[Cardinality({m \in ItemEvents : m <= n})]

NumberedItems == {n \in ItemEvents : events[ListOf(n)].tag = NUMBERED_LIST}

\* the numbering instance with identity id
NumOf(id) ==
    LET nums == builders[ListBuilder].doc.nums
    IN  nums[CHOOSE k \in 1..Len(nums) : nums[k].numId = id]

\* C26: two items of numbered lists have the same numbering identity exactly
\* when they are items of the same list element, also with a nested list between
\* them; the identity is allocated at the element's first item and restarts at 1
\* at that item's level; an item's level is the number of open lists minus one.
C26_OneIdentityPerNumberedList ==
    /\ builders[ListBuilder].error = None
    /\ Len(builders[ListBuilder].doc.body) = Cardinality(ItemEvents)
    /\ \A n \in ItemEvents : ItemOf(n).ilvl = Len(OpenLists(n)) - 1
    /\ \A n \in NumberedItems :
           /\ ItemOf(n).numId # 0
           /\ \E k \in 1..Len(builders[ListBuilder].doc.nums) :
                  builders[ListBuilder].doc.nums[k].numId = ItemOf(n).numId
           /\ NumOf(ItemOf(n).numId).startOverride = 1
           /\ NumOf(ItemOf(n).numId).ilvl = ItemOf(n).ilvl
    /\ \A n, m \in NumberedItems :
           (ItemOf(n).numId = ItemOf(m).numId) <=> (ListOf(n) = ListOf(m))
    /\ Len(builders[ListBuilder].doc.nums) =
           Cardinality({ListOf(n) : n \in NumberedItems})

\* a numbered list with an item, a nested numbered list with an item, and an
\* item of the outer list after the nested list has ended; then a second
\* numbered list with an item: three identities, the outer one used twice
C26_Witness ==
    /\ builders[ListBuilder].error = None
    /\ \E a, b, c, d \in NumberedItems :
           /\ a < b /\ b < c /\ c < d
           /\ ListOf(a) = ListOf(c) /\ ListOf(b) > ListOf(a)
           /\ Len(OpenLists(b)) = 2 /\ Len(OpenLists(c)) = 1
           /\ ListOf(d) > c
           /\ ItemOf(a).numId = ItemOf(c).numId
           /\ ItemOf(b).numId # ItemOf(a).numId
           /\ ItemOf(d).numId \notin {ItemOf(a).numId, ItemOf(b).numId}

----------------------------------------------------------------------------
====
